---- MODULE Spec2Model ----
(***************************************************************************)
(* A model of the dice-notation engine of mcp-server-dice                  *)
(* (src/src/index.ts, class DiceParser).                                   *)
(*                                                                         *)
(* A JavaScript string is a sequence of one-character strings, so that     *)
(* s[i], s.slice, toString and parseInt are modelled by what they do.      *)
(* Math.random() is a tape of numerators u in 0..RandDen-1 standing for    *)
(* the real u/RandDen in [0,1); the tape is read cyclically, one entry per *)
(* call, so every sequence of draws up to the tape's length is covered.    *)
(***************************************************************************)
EXTENDS Integers, Sequences, FiniteSets, TLC

VARIABLES
    input,      \* DiceParser.input    (index.ts:36)
    position,   \* DiceParser.position (index.ts:35)
    pending,    \* the parse calls still to be made: <<[expression, faces]>>
    expression, \* the argument of the last parse call
    faces,      \* the Math.random() tape of the last parse call
    drawn,      \* how many times the last parse call called Math.random()
    outcome,    \* what the last parse call returned or threw
    entered,    \* how many times the last parse call entered parseExpression
    prior,      \* the parser's fields and outcome when the last parse call began
    kv,         \* env.DICE_KV: the count stored under each per-minute key
    now,        \* Math.floor(Date.now() / 60000)
    made,       \* the roll calls each client made in the current minute
    evaluated,  \* those of them whose expression was handed to parse
    reply,      \* the JSON-RPC message the last tools/call was answered with
    flight,     \* the calls of checkRateLimit under way: where each is, and its count
    admitted,   \* the calls of checkRateLimit that returned limited: false
    started,    \* the calls of checkRateLimit begun
    clock,      \* Date.now(), in minutes
    deployed,   \* the Durable Object class the requests are routed to
    sse,        \* SSEConnectionDurableObject: messages and lastEventId
    db,         \* SQLiteDurableObject's database: the tables messages and metadata
    sending,    \* the /send requests under way in the SQLiteDurableObject
    poller,     \* a client polling /events: the events it received, its lastEventId
    stream      \* a /stream connection: what was enqueued, lastEventId, its callbacks

parserVars ==
    <<input, position, pending, expression, faces, drawn, outcome, entered, prior>>

serverVars == <<kv, now, made, evaluated, reply>>

limitVars == <<flight, admitted, started>>

objectVars == <<clock, deployed, sse, db, sending, poller, stream>>

vars == <<parserVars, serverVars, limitVars, objectVars>>

----------------------------------------------------------------------------
(* Program constants                                                       *)

MAX_NUMBER == 1000000
MAX_DICE_COUNT == 1000
MAX_DICE_SIDES == 10000
MAX_EXPLODE == 100
PERCENTILE_SIDES == 100
FUDGE_FACES == 3
RATE_LIMIT_MINUTE == 50
KEEP_LAST == 100
FIVE_MINUTES == 5
EVENTS_LIMIT == 50
STREAM_LIMIT == 10

(* Bounds of the model                                                     *)

RandDen == 3        \* Math.random() takes the values 0/RandDen .. (RandDen-1)/RandDen
TapeLen == 3        \* the length of the Math.random() tapes of the small calls
MaxDice == 3        \* the dice counts 1..MaxDice are enumerated
MaxSides == 3       \* the sides 1..MaxSides are enumerated
MaxRolls == 51      \* the roll calls made on the server within one minute
MaxMinute == 1      \* the minutes 0..MaxMinute pass
MaxClock == 6       \* Date.now() ranges over the minutes 0..MaxClock
ClockStep == 6      \* the minutes that pass between two /send requests, when any do
MaxEvents == 3      \* the events stored while a client polls
MaxSends == 101     \* the /send requests made to a Durable Object
MaxCallbacks == 2   \* the callbacks of one /stream poller under way together
MaxSenders == 2     \* the /send requests under way together
MaxRequests == 52   \* the calls of checkRateLimit made in one minute
MaxWorkers == 2     \* the calls of checkRateLimit under way together
MaxLit == 2         \* the literals 0..MaxLit are the operands of compound expressions

----------------------------------------------------------------------------
(* Strings and numbers                                                     *)

Digit == <<"0", "1", "2", "3", "4", "5", "6", "7", "8", "9">>

\* /\d/.test(c)
IsDigit(c) == \E d \in 1..10 : Digit[d] = c

DigitValue(c) == (CHOOSE d \in 1..10 : Digit[d] = c) - 1

\* parseInt(s) of a non-empty run of decimal digits
RECURSIVE parseInt(_)
parseInt(s) ==
    IF Len(s) = 0 THEN 0
    ELSE 10 * parseInt(SubSeq(s, 1, Len(s) - 1)) + DigitValue(s[Len(s)])

\* Number.prototype.toString of an integer, also `${n}` in a template
RECURSIVE toString(_)
toString(n) ==
    IF n < 0 THEN <<"-">> \o toString(0 - n)
    ELSE IF n < 10 THEN <<Digit[n + 1]>>
    ELSE toString(n \div 10) \o <<Digit[(n % 10) + 1]>>

\* The loops over an array of up to MAX_DICE_COUNT entries are evaluated by
\* halves (the entries lo+1..mid, then mid+1..hi, in the order of the source),
\* which keeps the depth of the evaluation logarithmic in the array's length.
Half(lo, hi) == lo + ((hi - lo) \div 2)

\* a[lo+1], ..., a[hi] as text, with sep between them
RECURSIVE joinRange(_, _, _, _)
joinRange(a, sep, lo, hi) ==
    IF hi <= lo THEN <<>>
    ELSE IF hi = lo + 1 THEN toString(a[hi])
    ELSE joinRange(a, sep, lo, Half(lo, hi)) \o sep \o joinRange(a, sep, Half(lo, hi), hi)

\* Array.prototype.join of numbers with a separator
join(a, sep) == joinRange(a, sep, 0, Len(a))

RECURSIVE sumRange(_, _, _)
sumRange(a, lo, hi) ==
    IF hi <= lo THEN 0
    ELSE IF hi = lo + 1 THEN a[hi]
    ELSE sumRange(a, lo, Half(lo, hi)) + sumRange(a, Half(lo, hi), hi)

\* a.reduce((sum, roll) => sum + roll, 0)
sum(a) == sumRange(a, 0, Len(a))

\* String.prototype.toLowerCase, one character
toLowerCase(c) ==
    CASE c = "D" -> "d"
      [] c = "K" -> "k"
      [] c = "R" -> "r"
      [] c = "E" -> "e"
      [] c = "F" -> "f"
      [] c = "X" -> "x"
      [] OTHER -> c

\* /\s/.test(c)
IsSpace(c) == c \in {" ", "\t", "\n"}

\* expression.toLowerCase().replace(/\s+/g, '')
RECURSIVE normalize(_)
normalize(s) ==
    IF Len(s) = 0 THEN <<>>
    ELSE LET rest == normalize(Tail(s))
         IN IF IsSpace(Head(s)) THEN rest ELSE <<toLowerCase(Head(s))>> \o rest

\* insert x into the sorted array a, after the elements that do not come after it
RECURSIVE insertSorted(_, _, _)
insertSorted(a, x, descending) ==
    IF Len(a) = 0 THEN <<x>>
    ELSE IF (IF descending THEN x > a[1] ELSE x < a[1]) THEN <<x>> \o a
    ELSE <<a[1]>> \o insertSorted(Tail(a), x, descending)

\* Array.prototype.sort with the comparator (a, b) => b - a or (a, b) => a - b
RECURSIVE sort(_, _)
sort(a, descending) ==
    IF Len(a) = 0 THEN <<>>
    ELSE insertSorted(sort(SubSeq(a, 1, Len(a) - 1), descending), a[Len(a)], descending)

\* Array.prototype.slice(from, to) with 0 <= from
slice(a, from, to) ==
    LET hi == IF to < Len(a) THEN to ELSE Len(a)
    IN IF from >= hi THEN <<>> ELSE SubSeq(a, from + 1, hi)

----------------------------------------------------------------------------
(* The random source                                                       *)

\* Math.floor(Math.random() * n), for the k-th call of Math.random() (k from 0)
randomInt(tape, k, n) == (tape[(k % Len(tape)) + 1] * n) \div RandDen

----------------------------------------------------------------------------
(* Results and errors                                                      *)

\* The DiceResult a failed step carries: never read
NoResult == [total |-> 0, rolls |-> <<>>, expression |-> <<>>, breakdown |-> <<>>]

\* No Error thrown
NoError == [message |-> "", at |-> 0, char |-> ""]

\* new Error(message), with the position and the character its text interpolates
Error(message, at, char) == [message |-> message, at |-> at, char |-> char]

\* A step of the parser ends in the cursor and the number of draws it leaves
\* behind (p), the Error it threw if any, and the DiceResult it returned.
Throw(p, error) == [p |-> p, error |-> error, result |-> NoResult]

Return(p, result) == [p |-> p, error |-> NoError, result |-> result]

Failed(r) == r.error.message # ""

----------------------------------------------------------------------------
(* DiceParser.peek and DiceParser.parseNumber                              *)
(*                                                                         *)
(* A value computed once and read several times is handed to an operator   *)
(* as a parameter (the operators named ...Then, ...Rest, ...Step), which    *)
(* is how the local constants of the source are written here.              *)

\* this.input[this.position + offset] || ''
peek(inp, p, offset) ==
    IF p.position + offset < Len(inp) THEN inp[p.position + offset + 1] ELSE ""

\* position++
advance(p) == [p EXCEPT !.position = p.position + 1]

\* the while loop of parseNumber: the position after the run of digits
RECURSIVE skipDigits(_, _)
skipDigits(inp, pos) ==
    IF pos < Len(inp) /\ IsDigit(inp[pos + 1]) THEN skipDigits(inp, pos + 1) ELSE pos

\* tooLarge with num >= this.MAX_NUMBER
tooLarge_Inclusive(num) == num >= MAX_NUMBER

\* num > this.MAX_NUMBER
tooLarge(num) == num > MAX_NUMBER

\* parseNumber after its while loop, which moved the cursor from start to end,
\* with num = parseInt(this.input.slice(start, end))
parseNumberThen(p, start, end, num) ==
    IF start = end
    THEN [p |-> p, error |-> NoError, isNull |-> TRUE, num |-> 0]
    ELSE IF tooLarge(num)
    THEN [p |-> [p EXCEPT !.position = end],
          error |-> Error("Number too large (max 1,000,000)", 0, ""),
          isNull |-> FALSE, num |-> num]
    ELSE [p |-> [p EXCEPT !.position = end], error |-> NoError,
          isNull |-> FALSE, num |-> num]

\* the digits between start and end, read as a number
numberAt(inp, p, start, end) ==
    parseNumberThen(p, start, end, parseInt(SubSeq(inp, start + 1, end)))

\* parseNumber: null (isNull) when no digit follows, an Error when the number
\* is too large, else the number
parseNumber(inp, p) == numberAt(inp, p, p.position, skipDigits(inp, p.position))

\* !n for the number | null that parseNumber returned
falsy(n) == n.isNull \/ n.num = 0

----------------------------------------------------------------------------
(* DiceParser.rollDice                                                     *)

\* DiceModifiers & { negative }. Every read of keep, drop, explodeOn and
\* reroll in the source tests the field for truthiness, so an absent field
\* (undefined) and the number 0 are the same value here: 0.
NoModifiers ==
    [keep |-> 0, drop |-> 0, explode |-> FALSE, explodeOn |-> 0, reroll |-> 0,
     negative |-> FALSE]

\* diceBounds with count * sides >= MAX_NUMBER for the third check
diceBounds_ProductInclusive(count, sides) ==
    IF count <= 0 \/ count > MAX_DICE_COUNT
    THEN "Dice count must be between 1 and 1000"
    ELSE IF sides <= 0 \/ sides > MAX_DICE_SIDES
    THEN "Dice sides must be between 1 and 10000"
    ELSE IF count * sides >= MAX_NUMBER
    THEN "Total possible outcomes too large"
    ELSE ""

\* the three bound checks at the head of rollDice: the message thrown, or ""
diceBounds(count, sides) ==
    IF count <= 0 \/ count > MAX_DICE_COUNT
    THEN "Dice count must be between 1 and 1000"
    ELSE IF sides <= 0 \/ sides > MAX_DICE_SIDES
    THEN "Dice sides must be between 1 and 10000"
    ELSE IF count * sides > MAX_NUMBER
    THEN "Total possible outcomes too large"
    ELSE ""

\* A die being rolled, d: the array rolls before it, its last face (roll),
\* its entry rolls[i] (value), allRolls, the draws made and explodeCount.

\* rolls.push(roll); allRolls.push(roll), for the die's first face
firstRoll(s, roll) ==
    [rolls |-> s.rolls, roll |-> roll, value |-> roll,
     allRolls |-> Append(s.allRolls, roll), draws |-> s.draws + 1, explodeCount |-> 0]

\* options.explodeOn || sides
explodeThreshold(options, sides) ==
    IF options.explodeOn # 0 THEN options.explodeOn ELSE sides

\* explodeAgain with explodeCount <= 100
explodeAgain_OneMore(roll, threshold, explodeCount) ==
    roll >= threshold /\ explodeCount <= MAX_EXPLODE

\* the condition of the explode loop
explodeAgain(roll, threshold, explodeCount) ==
    roll >= threshold /\ explodeCount < MAX_EXPLODE

\* the body of the explode loop, roll being the new face
explodeOnce(d, roll) ==
    [d EXCEPT !.roll = roll, !.value = d.value + roll,
              !.allRolls = Append(d.allRolls, roll), !.draws = d.draws + 1,
              !.explodeCount = d.explodeCount + 1]

\* the explode loop of one die
RECURSIVE explodeLoop(_, _, _, _)
explodeLoop(tape, sides, threshold, d) ==
    IF explodeAgain(d.roll, threshold, d.explodeCount)
    THEN explodeLoop(tape, sides, threshold,
             explodeOnce(d, randomInt(tape, d.draws, sides) + 1))
    ELSE d

\* Handle exploding dice
explodeDie(tape, sides, options, d) ==
    IF options.explode
    THEN explodeLoop(tape, sides, explodeThreshold(options, sides), d)
    ELSE d

\* rerollDie rerolling a second time a replacement that is <= options.reroll
rerollDie_Twice(tape, sides, options, d) ==
    IF options.reroll # 0 /\ d.value <= options.reroll
    THEN IF randomInt(tape, d.draws, sides) + 1 <= options.reroll
         THEN [d EXCEPT !.value = randomInt(tape, d.draws + 1, sides) + 1,
                        !.draws = d.draws + 2]
         ELSE [d EXCEPT !.value = randomInt(tape, d.draws, sides) + 1,
                        !.draws = d.draws + 1]
    ELSE d

\* Handle reroll
rerollDie(tape, sides, options, d) ==
    IF options.reroll # 0 /\ d.value <= options.reroll
    THEN [d EXCEPT !.value = randomInt(tape, d.draws, sides) + 1, !.draws = d.draws + 1]
    ELSE d

\* the end of one iteration of the for loop: the die's entry is in rolls
endDie(d) ==
    [rolls |-> Append(d.rolls, d.value), allRolls |-> d.allRolls, draws |-> d.draws]

\* rollDie with Math.floor(Math.random() * sides), the + 1 forgotten
rollDie_ZeroBased(tape, sides, options, s) ==
    endDie(rerollDie(tape, sides, options,
               explodeDie(tape, sides, options,
                   firstRoll(s, randomInt(tape, s.draws, sides)))))

\* one iteration of the for loop of rollDice: s is [rolls, allRolls, draws]
rollDie(tape, sides, options, s) ==
    endDie(rerollDie(tape, sides, options,
               explodeDie(tape, sides, options,
                   firstRoll(s, randomInt(tape, s.draws, sides) + 1))))

RECURSIVE rollLoop(_, _, _, _, _, _)

\* the iterations mid <= i < hi, after the iterations before mid ended in s1
\* (the test makes TLC evaluate s1 before it goes on)
rollLoopRest(tape, sides, options, mid, hi, s1) ==
    IF s1.draws >= 0 THEN rollLoop(tape, sides, options, mid, hi, s1) ELSE s1

\* the iterations lo <= i < hi of the for loop of rollDice, started in s
rollLoop(tape, sides, options, lo, hi, s) ==
    IF hi <= lo THEN s
    ELSE IF hi = lo + 1 THEN rollDie(tape, sides, options, s)
    ELSE rollLoopRest(tape, sides, options, Half(lo, hi), hi,
             rollLoop(tape, sides, options, lo, Half(lo, hi), s))

\* keepDrop with keep sorting ascending: the lowest are kept
keepDrop_KeepLowest(rolls, options) ==
    IF options.keep # 0 THEN slice(sort(rolls, FALSE), 0, options.keep)
    ELSE IF options.drop # 0 THEN slice(sort(rolls, FALSE), options.drop, Len(rolls))
    ELSE rolls

\* keepDrop with drop sorting descending: the highest are dropped
keepDrop_DropHighest(rolls, options) ==
    IF options.keep # 0 THEN slice(sort(rolls, TRUE), 0, options.keep)
    ELSE IF options.drop # 0 THEN slice(sort(rolls, TRUE), options.drop, Len(rolls))
    ELSE rolls

\* keepDrop selecting on the negated values of a negated term
keepDrop_Negated(rolls, options) ==
    IF options.keep # 0
    THEN slice(sort(rolls, ~options.negative), 0, options.keep)
    ELSE IF options.drop # 0
    THEN slice(sort(rolls, options.negative), options.drop, Len(rolls))
    ELSE rolls

\* keepDrop with drop applied to what keep retained
keepDrop_Both(rolls, options) ==
    IF options.keep # 0 /\ options.drop # 0
    THEN slice(sort(slice(sort(rolls, TRUE), 0, options.keep), FALSE),
               options.drop, Len(rolls))
    ELSE IF options.keep # 0 THEN slice(sort(rolls, TRUE), 0, options.keep)
    ELSE IF options.drop # 0 THEN slice(sort(rolls, FALSE), options.drop, Len(rolls))
    ELSE rolls

\* Apply keep/drop
keepDrop(rolls, options) ==
    IF options.keep # 0 THEN slice(sort(rolls, TRUE), 0, options.keep)
    ELSE IF options.drop # 0 THEN slice(sort(rolls, FALSE), options.drop, Len(rolls))
    ELSE rolls

\* ... * (options.negative ? -1 : 1)
signed(n, options) == IF options.negative THEN 0 - n ELSE n

\* diceExpression rendering `${sides}d${count}`
diceExpression_SidesFirst(count, sides, options) ==
    (IF options.negative THEN <<"-">> ELSE <<>>)
    \o toString(sides) \o <<"d">> \o toString(count)
    \o (IF options.keep # 0 THEN <<"k">> \o toString(options.keep) ELSE <<>>)
    \o (IF options.drop # 0 THEN <<"d">> \o toString(options.drop) ELSE <<>>)
    \o (IF ~options.explode THEN <<>>
        ELSE IF options.explodeOn # 0 THEN <<"e">> \o toString(options.explodeOn)
        ELSE <<"!">>)
    \o (IF options.reroll # 0 THEN <<"r">> \o toString(options.reroll) ELSE <<>>)

\* Build expression
diceExpression(count, sides, options) ==
    (IF options.negative THEN <<"-">> ELSE <<>>)
    \o toString(count) \o <<"d">> \o toString(sides)
    \o (IF options.keep # 0 THEN <<"k">> \o toString(options.keep) ELSE <<>>)
    \o (IF options.drop # 0 THEN <<"d">> \o toString(options.drop) ELSE <<>>)
    \o (IF ~options.explode THEN <<>>
        ELSE IF options.explodeOn # 0 THEN <<"e">> \o toString(options.explodeOn)
        ELSE <<"!">>)
    \o (IF options.reroll # 0 THEN <<"r">> \o toString(options.reroll) ELSE <<>>)

buildBreakdown(originalRolls, finalRolls, options) ==
    <<"[">> \o join(originalRolls, <<",", " ">>) \o <<"]">>
    \o (IF options.keep # 0 \/ options.drop # 0
        THEN <<" ", "→", " ", "[">> \o join(finalRolls, <<",", " ">>) \o <<"]">>
        ELSE <<>>)
    \o <<" ", "=", " ">> \o toString(sum(finalRolls))

\* the DiceResult rollDice returns, from rolls, allRolls and finalRolls
diceResult(count, sides, options, rolls, allRolls, finalRolls) ==
    [total |-> signed(sum(finalRolls), options),
     rolls |-> allRolls,
     expression |-> diceExpression(count, sides, options),
     breakdown |-> buildBreakdown(rolls, finalRolls, options)]

\* rollDice after its for loop ended in s
rollDiceThen(p, count, sides, options, s) ==
    Return([p EXCEPT !.draws = s.draws],
        diceResult(count, sides, options, s.rolls, s.allRolls, keepDrop(s.rolls, options)))

rollDice(tape, p, count, sides, options) ==
    IF diceBounds(count, sides) # ""
    THEN Throw(p, Error(diceBounds(count, sides), 0, ""))
    ELSE rollDiceThen(p, count, sides, options,
             rollLoop(tape, sides, options, 0, count,
                 [rolls |-> <<>>, allRolls |-> <<>>, draws |-> p.draws]))

----------------------------------------------------------------------------
(* DiceParser.rollFudgeDice                                                *)

fudgeBounds(count) ==
    IF count <= 0 \/ count > MAX_DICE_COUNT
    THEN "Dice count must be between 1 and 1000"
    ELSE ""

\* rollFudgeDie without the "- 1": faces 0, 1 and 2
rollFudgeDie_ZeroBased(tape, s) ==
    [rolls |-> Append(s.rolls, randomInt(tape, s.draws, FUDGE_FACES)),
     draws |-> s.draws + 1]

\* rolls.push(Math.floor(Math.random() * 3) - 1): s is [rolls, draws]
rollFudgeDie(tape, s) ==
    [rolls |-> Append(s.rolls, randomInt(tape, s.draws, FUDGE_FACES) - 1),
     draws |-> s.draws + 1]

RECURSIVE fudgeLoop(_, _, _, _)

\* the iterations mid <= i < hi, after the iterations before mid ended in s1
\* (the test makes TLC evaluate s1 before it goes on)
fudgeLoopRest(tape, mid, hi, s1) ==
    IF s1.draws >= 0 THEN fudgeLoop(tape, mid, hi, s1) ELSE s1

\* the iterations lo <= i < hi of the for loop of rollFudgeDice, started in s
fudgeLoop(tape, lo, hi, s) ==
    IF hi <= lo THEN s
    ELSE IF hi = lo + 1 THEN rollFudgeDie(tape, s)
    ELSE fudgeLoopRest(tape, Half(lo, hi), hi, fudgeLoop(tape, lo, Half(lo, hi), s))

\* r === -1 ? '[-]' : r === 0 ? '[ ]' : '[+]'
fudgeSymbol(r) ==
    IF r = 0 - 1 THEN <<"[", "-", "]">>
    ELSE IF r = 0 THEN <<"[", " ", "]">>
    ELSE <<"[", "+", "]">>

\* rolls.map(...).join(' '), the entries lo+1..hi
RECURSIVE fudgeSymbolsRange(_, _, _)
fudgeSymbolsRange(rolls, lo, hi) ==
    IF hi <= lo THEN <<>>
    ELSE IF hi = lo + 1 THEN fudgeSymbol(rolls[hi])
    ELSE fudgeSymbolsRange(rolls, lo, Half(lo, hi)) \o <<" ">>
         \o fudgeSymbolsRange(rolls, Half(lo, hi), hi)

fudgeSymbols(rolls) == fudgeSymbolsRange(rolls, 0, Len(rolls))

\* the DiceResult rollFudgeDice returns, from rolls and total
fudgeResult(count, options, rolls, total) ==
    [total |-> total,
     rolls |-> rolls,
     expression |-> (IF options.negative THEN <<"-">> ELSE <<>>)
                    \o toString(count) \o <<"d", "F">>,
     breakdown |-> fudgeSymbols(rolls) \o <<" ", "=", " ">> \o toString(total)]

\* rollFudgeDice after its for loop ended in s
rollFudgeDiceThen(p, count, options, s) ==
    Return([p EXCEPT !.draws = s.draws],
        fudgeResult(count, options, s.rolls, signed(sum(s.rolls), options)))

rollFudgeDice(tape, p, count, options) ==
    IF fudgeBounds(count) # ""
    THEN Throw(p, Error(fudgeBounds(count), 0, ""))
    ELSE rollFudgeDiceThen(p, count, options,
             fudgeLoop(tape, 0, count, [rolls |-> <<>>, draws |-> p.draws]))

----------------------------------------------------------------------------
(* DiceParser.combineResults and DiceParser.multiplyResults                *)

\* combineTotal with the operands of the subtraction exchanged
combineTotal_Swapped(left, right, operator) ==
    IF operator = "+" THEN left.total + right.total ELSE right.total - left.total

\* operator === '+' ? left.total + right.total : left.total - right.total
combineTotal(left, right, operator) ==
    IF operator = "+" THEN left.total + right.total ELSE left.total - right.total

combineResults(left, right, operator) ==
    [total |-> combineTotal(left, right, operator),
     rolls |-> left.rolls \o right.rolls,
     expression |-> left.expression \o <<" ", operator, " ">> \o right.expression,
     breakdown |-> left.breakdown \o <<" ", operator, " ">> \o right.breakdown
                   \o <<" ", "=", " ">> \o toString(combineTotal(left, right, operator))]

multiplyResults(left, right) ==
    [total |-> left.total * right.total,
     rolls |-> left.rolls \o right.rolls,
     expression |-> left.expression \o <<" ", "×", " ">> \o right.expression,
     breakdown |-> <<"(">> \o left.breakdown \o <<")", " ", "×", " ", "(">>
                   \o right.breakdown \o <<")", " ", "=", " ">>
                   \o toString(left.total * right.total)]

----------------------------------------------------------------------------
(* DiceParser.parseModifiers                                               *)

\* modifiers.keep = n, modifiers.drop = n or modifiers.reroll = n
setModifier(modifiers, char, n) ==
    IF char = "k" THEN [modifiers EXCEPT !.keep = n]
    ELSE IF char = "d" THEN [modifiers EXCEPT !.drop = n]
    ELSE [modifiers EXCEPT !.reroll = n]

\* "Missing number after 'k'", 'd' or 'r'
missingNumber(char) ==
    IF char = "k" THEN "Missing number after 'k'"
    ELSE IF char = "d" THEN "Missing number after 'd'"
    ELSE "Missing number after 'r'"

\* the loop of parseModifiers ends, returning or throwing
modifiersEnd(p, error, modifiers) == [p |-> p, error |-> error, modifiers |-> modifiers]

RECURSIVE parseModifiers(_, _, _)

\* numberModifier without the tests of !modifiers.keep, .drop and .reroll
numberModifier_Unchecked(inp, modifiers, char, n) ==
    IF Failed(n) THEN modifiersEnd(n.p, n.error, modifiers)
    ELSE parseModifiers(inp, n.p, setModifier(modifiers, char, n.num))

\* the branches k, d and r after n = this.parseNumber()
numberModifier(inp, modifiers, char, n) ==
    IF Failed(n) THEN modifiersEnd(n.p, n.error, modifiers)
    ELSE IF falsy(n) THEN modifiersEnd(n.p, Error(missingNumber(char), 0, ""), modifiers)
    ELSE parseModifiers(inp, n.p, setModifier(modifiers, char, n.num))

\* the branch ! or e after modifiers.explodeOn = this.parseNumber()
explodeOnModifier(inp, modifiers, n) ==
    IF Failed(n) THEN modifiersEnd(n.p, n.error, modifiers)
    ELSE parseModifiers(inp, n.p, [modifiers EXCEPT !.explodeOn = n.num])

\* the while loop of parseModifiers, from the cursor p with the modifiers read
\* so far; ends in [p, error, modifiers]
parseModifiers(inp, p, modifiers) ==
    IF ~(p.position < Len(inp)) THEN modifiersEnd(p, NoError, modifiers)
    ELSE IF peek(inp, p, 0) = "k"
    THEN numberModifier(inp, modifiers, "k", parseNumber(inp, advance(p)))
    ELSE IF peek(inp, p, 0) = "d" /\ IsDigit(peek(inp, p, 1))
    THEN numberModifier(inp, modifiers, "d", parseNumber(inp, advance(p)))
    ELSE IF peek(inp, p, 0) = "!" \/ peek(inp, p, 0) = "e"
    THEN IF IsDigit(peek(inp, advance(p), 0))
         THEN explodeOnModifier(inp, [modifiers EXCEPT !.explode = TRUE],
                  parseNumber(inp, advance(p)))
         ELSE parseModifiers(inp, advance(p), [modifiers EXCEPT !.explode = TRUE])
    ELSE IF peek(inp, p, 0) = "r"
    THEN numberModifier(inp, modifiers, "r", parseNumber(inp, advance(p)))
    ELSE modifiersEnd(p, NoError, modifiers)

----------------------------------------------------------------------------
(* DiceParser.parseDiceOrNumber                                            *)

\* count || 1 for the number | null that parseNumber returned
countOrOne(count) == IF falsy(count) THEN 1 ELSE count.num

\* negative ? `-${count}` : count.toString()
literalText(count, negative) ==
    IF negative THEN <<"-">> \o toString(count) ELSE toString(count)

\* the literal DiceResult of "Just a number"
literal(count, negative) ==
    [total |-> IF negative THEN 0 - count ELSE count,
     rolls |-> <<>>,
     expression |-> literalText(count, negative),
     breakdown |-> literalText(count, negative)]

\* { ...modifiers, negative }
withNegative(modifiers, negative) == [modifiers EXCEPT !.negative = negative]

\* after const modifiers = this.parseModifiers()
modifiersThen(tape, negative, count, sides, mods) ==
    IF Failed(mods) THEN Throw(mods.p, mods.error)
    ELSE rollDice(tape, mods.p, count, sides, withNegative(mods.modifiers, negative))

\* after const sides = this.parseNumber()
sidesThen(inp, tape, negative, count, sides) ==
    IF Failed(sides) THEN Throw(sides.p, sides.error)
    ELSE IF falsy(sides)
    THEN Throw(sides.p, Error("Missing number of sides after 'd'", 0, ""))
    ELSE modifiersThen(tape, negative, count, sides.num,
             parseModifiers(inp, sides.p, NoModifiers))

\* Check for dice notation: the cursor p is after the 'd'
diceNotation(inp, tape, p, negative, count) ==
    IF peek(inp, p, 0) = "%"
    THEN rollDice(tape, advance(p), count, PERCENTILE_SIDES,
             withNegative(NoModifiers, negative))
    ELSE IF peek(inp, p, 0) = "f"
    THEN rollFudgeDice(tape, advance(p), count, withNegative(NoModifiers, negative))
    ELSE sidesThen(inp, tape, negative, count, parseNumber(inp, p))

\* countThen with a count of null read as the literal 0
countThen_NullIsZero(inp, tape, start, negative, count) ==
    IF Failed(count) THEN Throw(count.p, count.error)
    ELSE IF peek(inp, count.p, 0) = "d"
    THEN diceNotation(inp, tape, advance(count.p), negative, countOrOne(count))
    ELSE Return(count.p, literal(count.num, negative))

\* after let count = this.parseNumber()
countThen(inp, tape, start, negative, count) ==
    IF Failed(count) THEN Throw(count.p, count.error)
    ELSE IF peek(inp, count.p, 0) = "d"
    THEN diceNotation(inp, tape, advance(count.p), negative, countOrOne(count))
    ELSE IF count.isNull
    THEN Throw(count.p, Error("Expected number or dice notation at position", start, ""))
    ELSE Return(count.p, literal(count.num, negative))

\* Handle negative numbers: the cursor p is after the '-' if there is one
signThen(inp, tape, start, negative, p) ==
    countThen(inp, tape, start, negative, parseNumber(inp, p))

parseDiceOrNumber(inp, tape, p) ==
    IF peek(inp, p, 0) = "-"
    THEN signThen(inp, tape, p.position, TRUE, advance(p))
    ELSE signThen(inp, tape, p.position, FALSE, p)

----------------------------------------------------------------------------
(* DiceParser.parseFactor, parseTerm and parseExpression                   *)

RECURSIVE parseExpression(_, _, _)

\* closing without the test of this.peek() !== ')'
closing_Unchecked(inp, r) ==
    IF Failed(r) THEN r
    ELSE IF peek(inp, r.p, 0) # ")" THEN Return(r.p, r.result)
    ELSE Return(advance(r.p), r.result)

\* after const result = this.parseExpression(), inside the parentheses
closing(inp, r) ==
    IF Failed(r) THEN r
    ELSE IF peek(inp, r.p, 0) # ")"
    THEN Throw(r.p, Error("Missing closing parenthesis", 0, ""))
    ELSE Return(advance(r.p), r.result)         \* consume ')'

\* parseFactor entering parseExpression on a '-' as it does on a '('
parseFactor_RecurseOnMinus(inp, tape, p) ==
    IF peek(inp, p, 0) = "(" \/ peek(inp, p, 0) = "-"
    THEN closing(inp, parseExpression(inp, tape, advance(p)))
    ELSE parseDiceOrNumber(inp, tape, p)

parseFactor(inp, tape, p) ==
    IF peek(inp, p, 0) = "("
    THEN closing(inp, parseExpression(inp, tape, advance(p)))   \* consume '('
    ELSE parseDiceOrNumber(inp, tape, p)

\* char === '*' || char === '×' || char === '·'
isTimes(char) == char \in {"*", "×", "·"}

RECURSIVE termLoop(_, _, _, _)

\* after const right = this.parseFactor(), in the while loop of parseTerm
termStep(inp, tape, left, right) ==
    IF Failed(right) THEN right
    ELSE termLoop(inp, tape, right.p, multiplyResults(left, right.result))

\* the while loop of parseTerm, with left evaluated up to the cursor p
termLoop(inp, tape, p, left) ==
    IF p.position < Len(inp) /\ isTimes(inp[p.position + 1])
    THEN termStep(inp, tape, left, parseFactor(inp, tape, advance(p)))
    ELSE Return(p, left)

\* after let left = this.parseFactor()
termRest(inp, tape, left) ==
    IF Failed(left) THEN left ELSE termLoop(inp, tape, left.p, left.result)

parseTerm(inp, tape, p) == termRest(inp, tape, parseFactor(inp, tape, p))

\* operator === '+' || operator === '-'
isPlusMinus(operator) == operator \in {"+", "-"}

RECURSIVE expressionLoop(_, _, _, _)

\* after const right = this.parseTerm(), in the while loop of parseExpression
expressionStep(inp, tape, left, operator, right) ==
    IF Failed(right) THEN right
    ELSE expressionLoop(inp, tape, right.p, combineResults(left, right.result, operator))

\* the while loop of parseExpression, with left evaluated up to the cursor p
expressionLoop(inp, tape, p, left) ==
    IF p.position < Len(inp) /\ isPlusMinus(inp[p.position + 1])
    THEN expressionStep(inp, tape, left, inp[p.position + 1],
             parseTerm(inp, tape, advance(p)))
    ELSE Return(p, left)

\* after let left = this.parseTerm()
expressionRest(inp, tape, left) ==
    IF Failed(left) THEN left ELSE expressionLoop(inp, tape, left.p, left.result)

\* a call of parseExpression begins: p.entered counts the calls made
enter(p) == [p EXCEPT !.entered = p.entered + 1]

parseExpression(inp, tape, p) ==
    expressionRest(inp, tape, parseTerm(inp, tape, enter(p)))

----------------------------------------------------------------------------
(* DiceParser.parse                                                        *)

\* new Error(`Parse error: ${error.message}`)
ParseError(error) ==
    [prefix |-> "Parse error: ", message |-> error.message, at |-> error.at,
     char |-> error.char]

NoParseError == [prefix |-> "", message |-> "", at |-> 0, char |-> ""]

\* the catch block of parse: what the call leaves and throws
parseThrow(inp, p, error) ==
    [input |-> inp, position |-> p.position, draws |-> p.draws, entered |-> p.entered,
     kind |-> "error", result |-> NoResult, error |-> ParseError(error)]

\* parseThen without the test of this.position < this.input.length
parseThen_IgnoreTrailing(inp, r) ==
    IF Failed(r) THEN parseThrow(inp, r.p, r.error)
    ELSE [input |-> inp, position |-> r.p.position, draws |-> r.p.draws,
          entered |-> r.p.entered,
          kind |-> "result", result |-> r.result, error |-> NoParseError]

\* the try block of parse after const result = this.parseExpression()
parseThen(inp, r) ==
    IF Failed(r) THEN parseThrow(inp, r.p, r.error)
    ELSE IF r.p.position < Len(inp)
    THEN parseThrow(inp, r.p,
             Error("Unexpected character at position", r.p.position,
                   inp[r.p.position + 1]))
    ELSE [input |-> inp, position |-> r.p.position, draws |-> r.p.draws,
          entered |-> r.p.entered,
          kind |-> "result", result |-> r.result, error |-> NoParseError]

\* the fields of a DiceParser
NewParser == [input |-> <<>>, position |-> 0]

\* assignInput without the normalization: this.input = expression
assignInput_Raw(parser, expr) == [parser EXCEPT !.input = expr]

\* this.input = expression.toLowerCase().replace(/\s+/g, '')
assignInput(parser, expr) == [parser EXCEPT !.input = normalize(expr)]

\* parse with this.position = 0 left out
resetPosition_Kept(parser) == parser

\* this.position = 0
resetPosition(parser) == [parser EXCEPT !.position = 0]

\* the cursor parseExpression is entered with: the field position, no draw of
\* Math.random() and no call of parseExpression made yet
cursor(parser) == [position |-> parser.position, draws |-> 0, entered |-> 0]

\* the try and catch of parse, on the fields that its first two lines set
parseInput(parser, tape) ==
    parseThen(parser.input, parseExpression(parser.input, tape, cursor(parser)))

\* parser.parse(expr) with Math.random() reading tape, on a DiceParser whose
\* fields are parser: the fields input and position it leaves, the number of
\* draws it made, and what it returned (kind "result") or threw (kind "error")
parseOn(parser, expr, tape) ==
    parseInput(resetPosition(assignInput(parser, expr)), tape)

\* new DiceParser().parse(expr)
parse(expr, tape) == parseOn(NewParser, expr, tape)

----------------------------------------------------------------------------
(* The expressions parsed and the Math.random() tapes they are parsed with *)

\* the tapes of n calls of Math.random() (one entry when n = 0: never read)
Tapes(n) == [1..(IF n = 0 THEN 1 ELSE n) -> 0..(RandDen - 1)]

\* the calls parse(e, ...) for e in E, under every tape of n entries
Calls(E, n) == {[expression |-> e, faces |-> t] : e \in E, t \in Tapes(n)}

\* "NdX" with the count written
Dice(n, x) == toString(n) \o <<"d">> \o toString(x)

\* "dX": the count omitted
OneDie(x) == <<"d">> \o toString(x)

\* a modifier letter followed by its number
Mod(letter, y) == <<letter>> \o toString(y)

Sign(negative) == IF negative THEN <<"-">> ELSE <<>>

\* NdX and -NdX with the count written, and dX and -dX (written = FALSE)
PlainTerms ==
    {[text |-> Sign(ng) \o Dice(n, x), negative |-> ng, written |-> TRUE,
      count |-> n, sides |-> x]
     : ng \in BOOLEAN, n \in 1..MaxDice, x \in 1..MaxSides}
    \cup {[text |-> Sign(ng) \o OneDie(x), negative |-> ng, written |-> FALSE,
           count |-> 1, sides |-> x]
          : ng \in BOOLEAN, x \in 1..MaxSides}

\* every term of PlainTerms under every outcome of its dice
PlainCalls == UNION {Calls({t.text}, t.count) : t \in PlainTerms}

\* NdXkY, NdXdY and their negations, for Y up to N + 1
KeepDropTerms ==
    {[text |-> Sign(ng) \o Dice(n, MaxSides) \o Mod(letter, y), negative |-> ng,
      count |-> n, sides |-> MaxSides, letter |-> letter, arg |-> y]
     : ng \in BOOLEAN, n \in 1..MaxDice, letter \in {"k", "d"}, y \in 1..(MaxDice + 1)}

\* every term of KeepDropTerms under every outcome of its dice
KeepDropCalls == UNION {Calls({t.text}, t.count) : t \in KeepDropTerms}

\* one or two exploding dice, NdX! (written = FALSE) and NdXeT for T from 0
ExplodeTerms ==
    {[text |-> Dice(n, x) \o <<"!">>, count |-> n, sides |-> x, written |-> FALSE,
      explodeOn |-> 0]
     : n \in 1..2, x \in 1..MaxSides}
    \cup {[text |-> Dice(n, x) \o Mod("e", t), count |-> n, sides |-> x,
           written |-> TRUE, explodeOn |-> t]
          : n \in 1..2, x \in 1..MaxSides, t \in 0..MaxSides}

\* every term of ExplodeTerms under every tape of TapeLen draws
ExplodeCalls == Calls({t.text : t \in ExplodeTerms}, TapeLen)

\* one or two rerolled dice, NdXrR and NdX!rR, for R up to above the value of
\* a die that exploded once
RerollTerms ==
    {[text |-> Dice(n, MaxSides) \o (IF ex THEN <<"!">> ELSE <<>>) \o Mod("r", r),
      count |-> n, sides |-> MaxSides, explode |-> ex, reroll |-> r]
     : n \in 1..2, ex \in BOOLEAN, r \in 1..(MaxSides + 2)}

\* every term of RerollTerms under every tape of TapeLen draws
RerollCalls == Calls({t.text : t \in RerollTerms}, TapeLen)

\* Fudge and percentile dice: NdF, Ndf, Nd% and their negations, the count
\* written (also as 0) or omitted
SpecialTerms ==
    {[text |-> Sign(ng) \o (IF w THEN toString(n) ELSE <<>>) \o <<"d", sfx>>,
      negative |-> ng, written |-> w, count |-> n, suffix |-> sfx]
     : ng \in BOOLEAN, w \in BOOLEAN, n \in 0..2, sfx \in {"f", "F", "%"}}

\* every term of SpecialTerms under every tape of two draws
SpecialCalls == Calls({t.text : t \in SpecialTerms}, 2)

\* the literals n and -n
LiteralTerms ==
    {[text |-> Sign(ng) \o toString(n), negative |-> ng, value |-> n]
     : ng \in BOOLEAN, n \in 0..MaxLit}

LiteralCalls == Calls({t.text : t \in LiteralTerms}, 0)

\* the numbers at and next to the bounds of parseNumber and rollDice
Edge == {0, 1, MAX_DICE_COUNT, MAX_DICE_COUNT + 1, MAX_DICE_SIDES, MAX_DICE_SIDES + 1,
         MAX_NUMBER, MAX_NUMBER + 1, 1000 * MAX_NUMBER + 1}

\* the terms NdX, Nd% and NdF with the numbers of Edge written as count and sides
EdgeTerms ==
    {[text |-> Dice(n, x), count |-> n, sides |-> x, suffix |-> "d"]
     : n \in Edge \cup {100, 101}, x \in Edge \cup {6}}
    \cup {[text |-> toString(n) \o <<"d", sfx>>, count |-> n,
           sides |-> (IF sfx = "%" THEN PERCENTILE_SIDES ELSE FUDGE_FACES), suffix |-> sfx]
          : n \in Edge, sfx \in {"%", "f"}}

\* the literals of Edge, and 2d6 with a number of Edge as a modifier's argument
EdgeNumbers ==
    {toString(n) : n \in Edge}
    \cup {Dice(2, 6) \o Mod(letter, n) : letter \in {"k", "d", "e", "!", "r"}, n \in Edge}

\* the terms of EdgeTerms and EdgeNumbers, all their dice showing the same face
EdgeCalls == Calls({t.text : t \in EdgeTerms} \cup EdgeNumbers, 1)

\* the operands of a compound expression: a literal, or one die
Operands ==
    {[text |-> toString(n), dice |-> 0, value |-> n] : n \in 0..MaxLit}
    \cup {[text |-> OneDie(MaxSides), dice |-> 1, value |-> 0]}

ShapeNames == {"a-b-c", "a-b+c", "a+b*c", "a*b-c", "(a+b)*c", "a*(b-c)"}

\* the text of a shape over the operand texts a, b and c
Shape(name, a, b, c) ==
    CASE name = "a-b-c" -> a \o <<"-">> \o b \o <<"-">> \o c
      [] name = "a-b+c" -> a \o <<"-">> \o b \o <<"+">> \o c
      [] name = "a+b*c" -> a \o <<"+">> \o b \o <<"*">> \o c
      [] name = "a*b-c" -> a \o <<"×">> \o b \o <<"-">> \o c
      [] name = "(a+b)*c" -> <<"(">> \o a \o <<"+">> \o b \o <<")", "·">> \o c
      [] name = "a*(b-c)" -> a \o <<"*", "(">> \o b \o <<"-">> \o c \o <<")">>

CompoundTerms ==
    {[text |-> Shape(name, a.text, b.text, c.text), shape |-> name,
      a |-> a, b |-> b, c |-> c]
     : name \in ShapeNames, a \in Operands, b \in Operands, c \in Operands}

\* every term of CompoundTerms under every outcome of its dice
CompoundCalls ==
    UNION {Calls({t.text}, t.a.dice + t.b.dice + t.c.dice) : t \in CompoundTerms}

\* a complete expression followed by input that parse leaves unconsumed: the
\* dice of the leading part, and the position and character parse stops at
TrailingTerms ==
    {[text |-> Dice(2, 3) \o <<"x">>, dice |-> 2, at |-> 3, char |-> "x"],
     [text |-> Dice(2, 3) \o <<"X">>, dice |-> 2, at |-> 3, char |-> "x"],
     [text |-> Dice(2, 3) \o <<")">>, dice |-> 2, at |-> 3, char |-> ")"],
     [text |-> Dice(2, 3) \o <<" ", "3", "d">>, dice |-> 2, at |-> 4, char |-> "d"],
     [text |-> <<"2", "x">>, dice |-> 0, at |-> 1, char |-> "x"],
     [text |-> <<"(", "1", "+", "d", "3", ")", "2">>, dice |-> 1, at |-> 6, char |-> "2"]}

TrailingCalls == Calls({t.text : t \in TrailingTerms}, 2)

\* inputs with no number, dice term or '(' where a factor is expected, at the
\* position `at` of the normalized input
NoFactorTerms ==
    {[text |-> <<>>, at |-> 0],
     [text |-> <<" ">>, at |-> 0],
     [text |-> Dice(2, 3) \o <<"+">>, at |-> 4],
     [text |-> Dice(2, 3) \o <<"+", "+">>, at |-> 4],
     [text |-> Dice(2, 3) \o <<"×">>, at |-> 4],
     [text |-> <<"3", "*">>, at |-> 2],
     [text |-> <<"+", "2">>, at |-> 0],
     [text |-> <<"*", "2">>, at |-> 0],
     [text |-> <<"(", ")">>, at |-> 1],
     [text |-> <<"(">>, at |-> 1],
     [text |-> <<"-">>, at |-> 0]}

NoFactorCalls == Calls({t.text : t \in NoFactorTerms}, 2)

\* inputs whose parentheses are not balanced, and the Error each one meets
UnbalancedTerms ==
    {[text |-> <<"(", "2">>, message |-> "Missing closing parenthesis"],
     [text |-> <<"(">> \o Dice(2, 3), message |-> "Missing closing parenthesis"],
     [text |-> <<"(", "(", "1", ")">>, message |-> "Missing closing parenthesis"],
     [text |-> <<"(", "1", "+", "2">>, message |-> "Missing closing parenthesis"],
     [text |-> <<"(", "(", "1", ")", "+", "2">>, message |-> "Missing closing parenthesis"],
     [text |-> <<"2", "*", "(", "1", "+", "d", "3">>,
      message |-> "Missing closing parenthesis"],
     [text |-> <<"1", ")">>, message |-> "Unexpected character at position"],
     [text |-> <<"(", "1", ")", ")">>, message |-> "Unexpected character at position"],
     [text |-> <<"(", "1", ")", "(">>, message |-> "Unexpected character at position"],
     [text |-> <<")">>, message |-> "Expected number or dice notation at position"]}

UnbalancedCalls == Calls({t.text : t \in UnbalancedTerms}, 2)

\* dice terms whose modifier letter, or whose 'd', lacks what must follow it
\* (message is the Error parse meets), and explode letters without a number
\* (message "")
ModifierTerms ==
    {[text |-> Dice(2, 3) \o <<"k">>, message |-> "Missing number after 'k'"],
     [text |-> Dice(2, 3) \o <<"k", "+", "1">>, message |-> "Missing number after 'k'"],
     [text |-> Dice(2, 3) \o <<"!", "k">>, message |-> "Missing number after 'k'"],
     [text |-> Dice(2, 3) \o <<"r">>, message |-> "Missing number after 'r'"],
     [text |-> Dice(2, 3) \o <<"r", "k", "1">>, message |-> "Missing number after 'r'"],
     [text |-> Dice(2, 3) \o <<"d">>, message |-> "Unexpected character at position"],
     [text |-> Dice(2, 3) \o <<"d", "k", "1">>,
      message |-> "Unexpected character at position"],
     [text |-> Dice(2, 3) \o <<"d", "+", "1">>,
      message |-> "Unexpected character at position"],
     [text |-> <<"(">> \o Dice(2, 3) \o <<"d", ")">>,
      message |-> "Missing closing parenthesis"],
     [text |-> <<"2", "d">>, message |-> "Missing number of sides after 'd'"],
     [text |-> <<"d">>, message |-> "Missing number of sides after 'd'"],
     [text |-> <<"2", "d", "x">>, message |-> "Missing number of sides after 'd'"],
     [text |-> <<"2", "d", "+", "1">>, message |-> "Missing number of sides after 'd'"],
     [text |-> <<"2", "d", "k", "1">>, message |-> "Missing number of sides after 'd'"],
     [text |-> Dice(2, 3) \o <<"!">>, message |-> ""],
     [text |-> Dice(2, 3) \o <<"e">>, message |-> ""],
     [text |-> Dice(2, 3) \o <<"e", "k", "1">>, message |-> ""],
     [text |-> Dice(2, 3) \o <<"!", "+", "1">>, message |-> ""]}

ModifierCalls == Calls({t.text : t \in ModifierTerms}, 2)

\* NdXkKdD and NdXdDkK: a keep and a drop modifier on one term, in both orders
BothTerms ==
    {[text |-> Dice(n, MaxSides)
               \o (IF keepFirst THEN Mod("k", k) \o Mod("d", d)
                   ELSE Mod("d", d) \o Mod("k", k)),
      count |-> n, sides |-> MaxSides, keep |-> k, drop |-> d, keepFirst |-> keepFirst]
     : n \in 2..MaxDice, k \in 1..2, d \in 1..2, keepFirst \in BOOLEAN}

\* every term of BothTerms under every outcome of its dice
BothCalls == UNION {Calls({t.text}, t.count) : t \in BothTerms}

\* Fudge terms NdF and -NdF for every count up to MaxDice
FudgeTerms ==
    {[text |-> Sign(ng) \o toString(n) \o <<"d", sfx>>, negative |-> ng, count |-> n]
     : ng \in BOOLEAN, n \in 1..MaxDice, sfx \in {"f", "F"}}

\* a Fudge term followed by a modifier, as the modifiers of NdX are written,
\* with the message parse throws
FudgeModifierTerms ==
    {[text |-> <<"2", "d", "F">> \o m, message |-> "Unexpected character at position"]
     : m \in {Mod("k", 1), Mod("d", 1), Mod("r", 1), Mod("e", 1), Mod("!", 1),
              <<"!">>, <<"e">>, <<"k">>, <<"r">>, <<"K", "1">>,
              <<"!", "+", "1">>, <<"k", "1", "+", "1">>}}
    \cup {[text |-> <<"(", "2", "d", "f">> \o m \o <<")">>,
           message |-> "Missing closing parenthesis"]
          : m \in {Mod("k", 1), <<"!">>}}

FudgeCalls ==
    Calls({t.text : t \in FudgeTerms}, MaxDice)
    \cup Calls({t.text : t \in FudgeModifierTerms}, 2)

\* inputs written with upper-case letters and whitespace, also between the
\* digits of a number, each with the normalized string it stands for
NormalizedTerms ==
    {[text |-> <<"2", "D", "3">>, normal |-> <<"2", "d", "3">>],
     [text |-> <<" ", "2", " ", "d", "\t", "3", " ">>, normal |-> <<"2", "d", "3">>],
     [text |-> <<"2", "D", "3", "K", "1">>, normal |-> <<"2", "d", "3", "k", "1">>],
     [text |-> <<"2", "d", "3", " ", "R", " ", "1">>, normal |-> <<"2", "d", "3", "r", "1">>],
     [text |-> <<"1", "D", "3", "E", "2">>, normal |-> <<"1", "d", "3", "e", "2">>],
     [text |-> <<"2", " ", "D", " ", "F">>, normal |-> <<"2", "d", "f">>],
     [text |-> <<"1", " ", "2">>, normal |-> <<"1", "2">>],
     [text |-> <<"1", "\n", "0", " ", "0", "0", " ", "0", "0", "1">>,
      normal |-> <<"1", "0", "0", "0", "0", "0", "1">>],
     [text |-> <<"2", "d", " ", "1", " ", "0">>, normal |-> <<"2", "d", "1", "0">>],
     [text |-> <<"(", " ", "D", "3", " ", "+", " ", "1", " ", ")", " ", "*", " ", "2">>,
      normal |-> <<"(", "d", "3", "+", "1", ")", "*", "2">>],
     [text |-> <<"2", "D", "3", " ", "X">>, normal |-> <<"2", "d", "3", "x">>],
     [text |-> <<"2", "D", "3", " ", "K">>, normal |-> <<"2", "d", "3", "k">>],
     [text |-> <<"(", " ", "2", "D">>, normal |-> <<"(", "2", "d">>],
     [text |-> <<" ", "\t", " ">>, normal |-> <<>>]}

NormalizedCalls ==
    Calls({t.text : t \in NormalizedTerms} \cup {t.normal : t \in NormalizedTerms}, 2)

AllCalls ==
    PlainCalls \cup KeepDropCalls \cup ExplodeCalls \cup RerollCalls \cup SpecialCalls
    \cup LiteralCalls \cup EdgeCalls \cup CompoundCalls
    \cup TrailingCalls \cup NoFactorCalls \cup UnbalancedCalls \cup ModifierCalls
    \cup BothCalls \cup FudgeCalls \cup NormalizedCalls

----------------------------------------------------------------------------
(* The state machine: a DiceParser and the parse calls made on it          *)

NoOutcome == [kind |-> "none", result |-> NoResult, error |-> NoParseError]

\* no call of parse was made before the last one
NoPrior ==
    [kind |-> "none", input |-> <<>>, position |-> 0, result |-> NoResult,
     reparse |-> FALSE]

\* the calls made first on a parser that is called twice: calls that return,
\* and calls that throw with the cursor part-way through the input
FirstCalls ==
    Calls({Dice(2, 3), Dice(2, 3) \o <<"x">>, <<"(", "1", "+">>,
           Dice(2, 3) \o <<"k">>, toString(MAX_NUMBER + 1) \o <<"+", "1">>}, 1)

\* the calls made second
SecondCalls ==
    Calls({<<>>, OneDie(3), <<"1", "+", "2">>, Dice(2, 3) \o Mod("k", 1),
           <<"(", "2", ")">>, Dice(2, 3) \o <<"x">>, <<"1", "2", "3", "4", "5">>,
           <<"(", "d", "3", "+", "1", ")", "*", "2">>}, 1)

\* the clients that call the server: the values of the CF-Connecting-IP header
Clients == {"10.0.0.1", "10.0.0.2"}

\* the minutes Date.now() falls in: Math.floor(now / 60000)
Minutes == 0..MaxMinute

\* the concurrent calls of checkRateLimit
Workers == 1..MaxWorkers

\* no call of checkRateLimit is under way, and none was made
LimitIdle ==
    /\ flight = [w \in Workers |-> [at |-> "idle", count |-> 0]]
    /\ admitted = 0
    /\ started = 0

\* the /send requests that can be under way together
Senders == 1..MaxSenders

\* the callbacks of the /stream poller that can be under way together
Callbacks == 1..MaxCallbacks

\* a /send request, or a callback, that is not under way
NoSend == [at |-> "idle", eventId |-> 0]

NoCallback == [at |-> "idle", lastEventId |-> 0, results |-> <<>>]

\* new Durable Objects with an empty database, and clients that have received
\* nothing
ObjectIdle ==
    /\ clock = 0
    /\ deployed = "SQLiteDurableObject"
    /\ sse = [messages |-> <<>>, lastEventId |-> 0]
    /\ db = [messages |-> <<>>, lastEventId |-> 0]
    /\ sending = [s \in Senders |-> NoSend]
    /\ poller = [received |-> <<>>, lastEventId |-> 0]
    /\ stream = [enqueued |-> <<>>, lastEventId |-> 0,
                 polls |-> [c \in Callbacks |-> NoCallback]]

\* no JSON-RPC message was sent yet
NoReply == [jsonrpc |-> "", kind |-> "none", content |-> <<>>, code |-> 0]

\* a Worker that has not been called: DICE_KV holds no counter (a key that is
\* absent reads as the count 0)
ServerIdle ==
    /\ kv = [k \in Clients \X Minutes |-> 0]
    /\ now = 0
    /\ made = [c \in Clients |-> 0]
    /\ evaluated = [c \in Clients |-> 0]
    /\ reply = NoReply
    /\ LimitIdle

\* new DiceParser(), with one call of parse still to be made, or two
Init ==
    /\ input = NewParser.input
    /\ position = NewParser.position
    /\ pending \in {<<c>> : c \in AllCalls}
                   \cup {<<c1, c2>> : c1 \in FirstCalls, c2 \in SecondCalls}
    /\ expression = <<>>
    /\ faces = <<>>
    /\ drawn = 0
    /\ outcome = NoOutcome
    /\ entered = 0
    /\ prior = NoPrior
    /\ ServerIdle
    /\ ObjectIdle

\* the state a call leaves: r is what parse computed for it
Called(call, r) ==
    /\ input' = r.input
    /\ position' = r.position
    /\ expression' = call.expression
    /\ faces' = call.faces
    /\ drawn' = r.draws
    /\ entered' = r.entered
    /\ outcome' = [kind |-> r.kind, result |-> r.result, error |-> r.error]

\* what the call that begins now finds: the fields and the outcome of the call
\* before it
Found(reparse) ==
    [kind |-> outcome.kind, input |-> input, position |-> position,
     result |-> outcome.result, reparse |-> reparse]

\* the fields of the parser
Parser == [input |-> input, position |-> position]

\* parser.parse(expression), the whole call
Parse ==
    /\ pending # <<>>
    /\ Called(Head(pending),
              parseOn(Parser, Head(pending).expression, Head(pending).faces))
    /\ prior' = Found(FALSE)
    /\ pending' = Tail(pending)
    /\ UNCHANGED <<serverVars, limitVars, objectVars>>

\* the calls whose rendered expression is parsed again: the literals, NdX, dX,
\* Nd% and NdF, none negated
RoundTripTexts ==
    {t.text : t \in {u \in PlainTerms \cup SpecialTerms \cup LiteralTerms : ~u.negative}}
    \cup {t.text : t \in EdgeTerms} \cup {toString(n) : n \in Edge}

\* the compound expressions whose operands are all literals
CompoundLiteralTexts ==
    {t.text : t \in {u \in CompoundTerms : u.a.dice + u.b.dice + u.c.dice = 0}}

\* parser.parse(result.expression): the expression that the first call
\* rendered is parsed by the same parser, with the same values of Math.random()
Reparse ==
    /\ pending = <<>>
    /\ outcome.kind = "result"
    /\ prior.kind = "none"
    /\ expression \in RoundTripTexts \cup CompoundLiteralTexts
    /\ Called([expression |-> outcome.result.expression, faces |-> faces],
              parseOn(Parser, outcome.result.expression, faces))
    /\ prior' = Found(TRUE)
    /\ UNCHANGED <<pending, serverVars, limitVars, objectVars>>

Next == Parse \/ Reparse

Spec == Init /\ [][Next]_vars

----------------------------------------------------------------------------
(* The Worker: fetch, DiceMCPServer and the rate limit of the roll tool     *)

\* the Request a handler was given, or none (undefined)
Request(client) == [present |-> TRUE, client |-> client]

NoRequest == [present |-> FALSE, client |-> ""]

\* const minuteCount = await this.env.DICE_KV.get(minuteKey); const count =
\* minuteCount ? parseInt(minuteCount) : 0
minuteCount(store, client, minute) == store[<<client, minute>>]

\* checkRateLimit after count was read: the call is limited, or
\* DICE_KV.put(minuteKey, (count + 1).toString())
countedThen(store, client, minute, count) ==
    IF count >= RATE_LIMIT_MINUTE
    THEN [limited |-> TRUE, kv |-> store]
    ELSE [limited |-> FALSE, kv |-> [store EXCEPT ![<<client, minute>>] = count + 1]]

\* checkRateLimit(`ip:${clientIP}`) in the minute `minute`, no other call
\* running between its get and its put: whether the call is limited, and
\* DICE_KV after it
checkRateLimit(store, client, minute) ==
    countedThen(store, client, minute, minuteCount(store, client, minute))

\* { content: [ { type: "text", text } ] }, returned by executeRollTool:
\* `parsed` tells whether parse was called, and r is what it left
toolResult(text, store, parsed, r) ==
    [threw |-> FALSE, content |-> <<[type |-> "text", text |-> text]>>,
     kv |-> store, parsed |-> parsed, r |-> r]

\* an exception leaving executeRollTool
toolThrow(store, parsed, r) ==
    [threw |-> TRUE, content |-> <<>>, kv |-> store, parsed |-> parsed, r |-> r]

\* the response of executeRollTool that reports the rate limit: parse is not
\* called
rateLimited(store) ==
    toolResult(<<":warning: **Rate limit exceeded**">>, store, FALSE, NoOutcome)

\* a.includes(b)
includes(a, b) ==
    \E i \in 0..(Len(a) - Len(b)) : SubSeq(a, i + 1, i + Len(b)) = b

\* "Add some flair for special results"
flair(result, expr) ==
    IF result.total >= 100 \/ 0 - result.total >= 100 THEN <<" :boom:">>
    ELSE IF result.total = 1 /\ Len(result.rolls) = 1 THEN <<" :skull:">>
    ELSE IF (\E i \in 1..Len(result.rolls) : result.rolls[i] = 20)
            /\ includes(expr, <<"d", "2", "0">>)
    THEN <<" :star:">>
    ELSE <<>>

\* the text of a roll: expression, description if there is one, breakdown,
\* total and flair
rollText(result, args) ==
    <<":game_die: **">> \o result.expression \o <<"**">>
    \o (IF args.description # <<>> THEN <<" *(">> \o args.description \o <<")*">>
        ELSE <<>>)
    \o <<"\n\n">> \o result.breakdown
    \o <<"\n\n**Result: ">> \o toString(result.total) \o <<"**">>
    \o flair(result, args.expression)

\* error.message of the Error that parse threw, as its template strings build it
errorMessage(error) ==
    <<error.prefix, error.message>>
    \o (IF error.message = "Unexpected character at position"
        THEN <<" ">> \o toString(error.at) \o <<": '", error.char, "'">>
        ELSE IF error.message = "Expected number or dice notation at position"
        THEN <<" ">> \o toString(error.at)
        ELSE <<>>)

\* executeRollTool's catch block rethrowing the error
rollReply_Rethrow(store, args, r) ==
    IF r.kind = "result" THEN toolResult(rollText(r.result, args), store, TRUE, r)
    ELSE toolThrow(store, TRUE, r)

\* the try block of executeRollTool from const result = this.parser.parse(...)
\* on, and its catch block: the roll is reported, or the invalid expression
rollReply(store, args, r) ==
    IF r.kind = "result" THEN toolResult(rollText(r.result, args), store, TRUE, r)
    ELSE toolResult(<<":x: **Invalid dice expression**: ">> \o errorMessage(r.error)
                        \o <<"\n\n**Examples:**">>,
             store, TRUE, r)

\* executeRollTool after the rate limit was checked
rollToolThen(limit, args) ==
    IF limit.limited THEN rateLimited(limit.kv)
    ELSE rollReply(limit.kv, args, parse(args.expression, args.faces))

\* executeRollTool(args, request): the rate limit is checked if (request)
executeRollTool(store, minute, request, args) ==
    IF request.present
    THEN rollToolThen(checkRateLimit(store, request.client, minute), args)
    ELSE rollReply(store, args, parse(args.expression, args.faces))

\* handleToolCall(params, request), case 'roll': what executeRollTool returns
\* is returned, what it throws is thrown again
handleToolCall(store, minute, request, args) ==
    executeRollTool(store, minute, request, args)

\* { jsonrpc: "2.0", result: toolResult, id } or, from the catch block,
\* { jsonrpc: "2.0", error: { code: -32603, message: 'Internal error' }, id }
rpcMessage(t) ==
    IF t.threw
    THEN [jsonrpc |-> "2.0", kind |-> "error", content |-> <<>>, code |-> 0 - 32603]
    ELSE [jsonrpc |-> "2.0", kind |-> "result", content |-> t.content, code |-> 0]

\* what handleMCPMessage leaves after handleToolCall ended in t
messageThen(t) ==
    [reply |-> rpcMessage(t), kv |-> t.kv, parsed |-> t.parsed, r |-> t.r]

\* handleMCPMessage(message, request), case 'tools/call'
handleMCPMessage(store, minute, request, args) ==
    messageThen(handleToolCall(store, minute, request, args))

\* handleMCPRequest(request): this.handleMCPMessage(body)
handleMCPRequest(store, minute, request, args) ==
    handleMCPMessage(store, minute, NoRequest, args)

\* handleSSERequest(request): this.handleMCPMessage(message), for a data line
\* of the body
handleSSERequest(store, minute, request, args) ==
    handleMCPMessage(store, minute, NoRequest, args)

\* fetch(request, env, ctx) for a POST whose body is a tools/call of roll
fetch(store, minute, pathname, request, args) ==
    IF pathname = "/mcp" THEN handleMCPRequest(store, minute, request, args)
    ELSE handleSSERequest(store, minute, request, args)

\* the arguments of a roll call: the expression, the description (<<>> when
\* there is none) and the values Math.random() returns during the call
Args(E, n, D) ==
    {[expression |-> c.expression, faces |-> c.faces, description |-> d]
     : c \in Calls(E, n), d \in D}

\* the roll calls the clients make
ServerCalls == Args({OneDie(3)}, 1, {<<>>}) \cup Args({<<"x">>}, 0, {<<>>})

\* the roll calls that the clients of C made in the current minute, together
RECURSIVE madeBy(_)
madeBy(C) ==
    IF C = {} THEN 0
    ELSE made[CHOOSE c \in C : TRUE] + madeBy(C \ {CHOOSE c \in C : TRUE})

\* the Worker before its first request
ServerInit ==
    /\ input = NewParser.input
    /\ position = NewParser.position
    /\ pending = <<>>
    /\ expression = <<>>
    /\ faces = <<>>
    /\ drawn = 0
    /\ outcome = NoOutcome
    /\ entered = 0
    /\ prior = NoPrior
    /\ ServerIdle
    /\ ObjectIdle

\* the state a roll call leaves: t is what fetch computed for it. The
\* DiceMCPServer of the request, and its DiceParser, are new.
Served(client, call, t) ==
    /\ kv' = t.kv
    /\ reply' = t.reply
    /\ made' = [made EXCEPT ![client] = made[client] + 1]
    /\ evaluated' = [evaluated EXCEPT ![client] = evaluated[client]
                                                  + (IF t.parsed THEN 1 ELSE 0)]
    /\ IF t.parsed
       THEN Called(call, t.r)
       ELSE /\ input' = NewParser.input
            /\ position' = NewParser.position
            /\ expression' = call.expression
            /\ faces' = call.faces
            /\ drawn' = 0
            /\ entered' = 0
            /\ outcome' = NoOutcome
    /\ UNCHANGED <<prior, now, limitVars, objectVars>>

\* a client posts a tools/call of the roll tool to /mcp or /sse
RollCall ==
    \E pathname \in {"/mcp", "/sse"}, client \in Clients, call \in ServerCalls :
        /\ madeBy(Clients) < MaxRolls
        /\ Served(client, call, fetch(kv, now, pathname, Request(client), call))
        /\ UNCHANGED pending

\* a minute ends
Tick ==
    /\ now < MaxMinute
    /\ now' = now + 1
    /\ made' = [c \in Clients |-> 0]
    /\ evaluated' = [c \in Clients |-> 0]
    /\ UNCHANGED <<parserVars, kv, reply, limitVars, objectVars>>

ServerNext == RollCall \/ Tick

ServerSpec == ServerInit /\ [][ServerNext]_vars

----------------------------------------------------------------------------
(* The roll tool: one tools/call of roll, for each of the expressions      *)

\* the roll calls whose replies are examined: expressions that parse and
\* expressions that throw each ParseError, with and without a description
ToolCalls ==
    UNION {Args({c.expression}, Len(c.faces), {<<>>})
           : c \in TrailingCalls \cup NoFactorCalls \cup UnbalancedCalls
                   \cup ModifierCalls \cup EdgeCalls \cup LiteralCalls}
    \cup Args({Dice(2, 3), OneDie(3), <<"2", "d", "F">>, <<"1", "0", "0">>,
               <<"-", "1", "0", "0">>, <<"9", "9">>, <<"2", "d", "3", "x">>,
               <<"(", "1">>}, 2,
              {<<>>, <<"a", "t", "t", "a", "c", "k">>})

\* the Worker before the request, and the request it is about to receive
ToolInit ==
    /\ input = NewParser.input
    /\ position = NewParser.position
    /\ pending \in {<<c>> : c \in ToolCalls}
    /\ expression = <<>>
    /\ faces = <<>>
    /\ drawn = 0
    /\ outcome = NoOutcome
    /\ entered = 0
    /\ prior = NoPrior
    /\ ServerIdle
    /\ ObjectIdle

\* the request is received and answered
ToolCall ==
    \E pathname \in {"/mcp", "/sse"}, client \in Clients :
        /\ pending # <<>>
        /\ Served(client, Head(pending),
               fetch(kv, now, pathname, Request(client), Head(pending)))
        /\ pending' = Tail(pending)

ToolNext == ToolCall

ToolSpec == ToolInit /\ [][ToolNext]_vars

----------------------------------------------------------------------------
(* checkRateLimit called by concurrent requests of one client              *)

\* the client whose requests are concurrent
Caller == "10.0.0.1"

\* a Worker and a DiceParser that have not been called
Unused ==
    /\ input = NewParser.input
    /\ position = NewParser.position
    /\ pending = <<>>
    /\ expression = <<>>
    /\ faces = <<>>
    /\ drawn = 0
    /\ outcome = NoOutcome
    /\ entered = 0
    /\ prior = NoPrior
    /\ ServerIdle

LimitInit == Unused /\ ObjectIdle

\* a request enters checkRateLimit and its DICE_KV.get resolves
LimitGet(w) ==
    /\ flight[w].at = "idle"
    /\ started < MaxRequests
    /\ flight' = [flight EXCEPT ![w] = [at |-> "counted",
                                        count |-> minuteCount(kv, Caller, now)]]
    /\ started' = started + 1
    /\ UNCHANGED <<parserVars, serverVars, admitted, objectVars>>

\* the request goes on from the count it read: it is limited, or it puts
\* count + 1 and is admitted
LimitPut(w) ==
    /\ flight[w].at = "counted"
    /\ kv' = countedThen(kv, Caller, now, flight[w].count).kv
    /\ admitted' = admitted
                   + (IF countedThen(kv, Caller, now, flight[w].count).limited
                      THEN 0 ELSE 1)
    /\ flight' = [flight EXCEPT ![w] = [at |-> "idle", count |-> 0]]
    /\ UNCHANGED <<parserVars, now, made, evaluated, reply, started, objectVars>>

LimitNext == \E w \in Workers : LimitGet(w) \/ LimitPut(w)

LimitSpec == LimitInit /\ [][LimitNext]_vars

----------------------------------------------------------------------------
(* The event stores: /send of SSEConnectionDurableObject and of            *)
(* SQLiteDurableObject, one request at a time                              *)

\* the last n entries of a: a.slice(-n)
lastOf(a, n) == IF Len(a) <= n THEN a ELSE SubSeq(a, Len(a) - n + 1, Len(a))

\* this.messages.filter(m => m.timestamp > fiveMinutesAgo)
filterRecent(messages, fiveMinutesAgo) ==
    LET recent(m) == m.timestamp > fiveMinutesAgo
    IN SelectSeq(messages, recent)

\* SSEConnectionDurableObject /send for a response that is not null: the
\* event gets the id ++this.lastEventId and is pushed, and messages is
\* filtered and sliced
sseSend(o, t) ==
    [lastEventId |-> o.lastEventId + 1,
     messages |-> lastOf(filterRecent(Append(o.messages,
                             [id |-> o.lastEventId + 1, timestamp |-> t]),
                             t - FIVE_MINUTES),
                         KEEP_LAST)]

\* UPDATE metadata SET value = value + 1 WHERE key = 'lastEventId' RETURNING value
incrementEventId(d) == [d EXCEPT !.lastEventId = d.lastEventId + 1]

\* INSERT INTO messages (id, message, timestamp) VALUES (eventId, ..., t)
insertMessage(d, eventId, t) ==
    [d EXCEPT !.messages = Append(d.messages, [id |-> eventId, timestamp |-> t])]

\* id NOT IN (SELECT id FROM messages ORDER BY id DESC LIMIT 100)
notInLast(messages, m) ==
    Cardinality({i \in 1..Len(messages) : messages[i].id > m.id}) >= KEEP_LAST

\* DELETE FROM messages WHERE timestamp < fiveMinutesAgo AND id NOT IN (...)
cleanUp(d, fiveMinutesAgo) ==
    LET kept(m) == ~(m.timestamp < fiveMinutesAgo /\ notInLast(d.messages, m))
    IN [d EXCEPT !.messages = SelectSeq(d.messages, kept)]

\* SQLiteDurableObject /send for a response that is not null, no other request
\* running between its statements
sqlSend(d, t) ==
    cleanUp(insertMessage(incrementEventId(d), incrementEventId(d).lastEventId, t),
            t - FIVE_MINUTES)

\* the Durable Objects before the first request, one of the classes deployed
StoreInit ==
    /\ Unused
    /\ clock = 0
    /\ deployed \in {"SSEConnectionDurableObject", "SQLiteDurableObject"}
    /\ sse = [messages |-> <<>>, lastEventId |-> 0]
    /\ db = [messages |-> <<>>, lastEventId |-> 0]
    /\ sending = [s \in Senders |-> NoSend]
    /\ poller = [received |-> <<>>, lastEventId |-> 0]
    /\ stream = [enqueued |-> <<>>, lastEventId |-> 0,
                 polls |-> [c \in Callbacks |-> NoCallback]]

\* POST /send to the SSEConnectionDurableObject
SseSend ==
    /\ deployed = "SSEConnectionDurableObject"
    /\ sse.lastEventId < MaxSends
    /\ sse' = sseSend(sse, clock)
    /\ UNCHANGED <<parserVars, serverVars, limitVars, clock, deployed, db, sending,
                   poller, stream>>

\* POST /send to the SQLiteDurableObject
SqlSend ==
    /\ deployed = "SQLiteDurableObject"
    /\ db.lastEventId < MaxSends
    /\ db' = sqlSend(db, clock)
    /\ UNCHANGED <<parserVars, serverVars, limitVars, clock, deployed, sse, sending,
                   poller, stream>>

\* time passes
Advance ==
    /\ clock < MaxClock
    /\ clock' = clock + ClockStep
    /\ UNCHANGED <<parserVars, serverVars, limitVars, deployed, sse, db, sending,
                   poller, stream>>

StoreNext == SseSend \/ SqlSend \/ Advance

StoreSpec == StoreInit /\ [][StoreNext]_vars

----------------------------------------------------------------------------
(* SQLiteDurableObject: concurrent /send requests and a client polling     *)
(* /events                                                                 *)

\* the first n entries of a: LIMIT n
firstOf(a, n) == IF Len(a) <= n THEN a ELSE SubSeq(a, 1, n)

\* the ids of the rows of a, in the order of a
idsOf(a) == [i \in 1..Len(a) |-> a[i].id]

\* ORDER BY id ASC, on ids
RECURSIVE ascending(_)
ascending(ids) ==
    IF ids = <<>> THEN <<>>
    ELSE insertSorted(ascending(Tail(ids)), Head(ids), FALSE)

\* SELECT id, message, timestamp FROM messages WHERE id > lastEventId
\* ORDER BY id ASC LIMIT limit: the ids of the rows selected
selectAfter(d, lastEventId, limit) ==
    LET after(m) == m.id > lastEventId
    IN firstOf(ascending(idsOf(SelectSeq(d.messages, after))), limit)

\* what the client has after the response of /events that carries `events`:
\* it received them, and the highest id it received is its lastEventId
receiveEvents(c, events) ==
    IF events = <<>> THEN c
    ELSE [received |-> c.received \o events, lastEventId |-> events[Len(events)]]

EventInit == Unused /\ ObjectIdle

\* /send up to the await of UPDATE metadata ... RETURNING value
SendIncrement(s) ==
    /\ sending[s].at = "idle"
    /\ db.lastEventId < MaxEvents
    /\ db' = incrementEventId(db)
    /\ sending' = [sending EXCEPT ![s] = [at |-> "insert",
                                          eventId |-> incrementEventId(db).lastEventId]]
    /\ UNCHANGED <<parserVars, serverVars, limitVars, clock, deployed, sse, poller,
                   stream>>

\* /send from there up to the await of INSERT INTO messages
SendInsert(s) ==
    /\ sending[s].at = "insert"
    /\ db' = insertMessage(db, sending[s].eventId, clock)
    /\ sending' = [sending EXCEPT ![s].at = "cleanup"]
    /\ UNCHANGED <<parserVars, serverVars, limitVars, clock, deployed, sse, poller,
                   stream>>

\* /send from there to its end: DELETE FROM messages ..., return
SendCleanup(s) ==
    /\ sending[s].at = "cleanup"
    /\ db' = cleanUp(db, clock - FIVE_MINUTES)
    /\ sending' = [sending EXCEPT ![s] = NoSend]
    /\ UNCHANGED <<parserVars, serverVars, limitVars, clock, deployed, sse, poller,
                   stream>>

\* the client requests /events?lastEventId=... with the highest id it received
PollEvents ==
    /\ poller' = receiveEvents(poller, selectAfter(db, poller.lastEventId, EVENTS_LIMIT))
    /\ UNCHANGED <<parserVars, serverVars, limitVars, clock, deployed, sse, db,
                   sending, stream>>

EventNext ==
    \/ \E s \in Senders : SendIncrement(s) \/ SendInsert(s) \/ SendCleanup(s)
    \/ PollEvents

\* every /send that began goes on to its end, and the client keeps polling
EventSpec ==
    /\ EventInit
    /\ [][EventNext]_vars
    /\ WF_vars(PollEvents)
    /\ \A s \in Senders : WF_vars(SendInsert(s)) /\ WF_vars(SendCleanup(s))

----------------------------------------------------------------------------
(* SQLiteDurableObject: one /stream connection and its setInterval poller  *)

\* the for loop of the callback: every event of results is enqueued, and
\* lastEventId becomes its id
enqueueAll(st, results) ==
    IF results = <<>> THEN st
    ELSE [st EXCEPT !.enqueued = st.enqueued \o results,
                    !.lastEventId = results[Len(results)]]

StreamInit == Unused /\ ObjectIdle

\* POST /send, from its first statement to its last
StoreEvent ==
    /\ db.lastEventId < MaxEvents
    /\ db' = sqlSend(db, clock)
    /\ UNCHANGED <<parserVars, serverVars, limitVars, clock, deployed, sse, sending,
                   poller, stream>>

\* the interval elapses and a callback starts: it binds lastEventId to its
\* query and awaits it
IntervalStart(c) ==
    /\ stream.polls[c].at = "idle"
    /\ stream' = [stream EXCEPT !.polls[c] =
                      [at |-> "query", lastEventId |-> stream.lastEventId,
                       results |-> <<>>]]
    /\ UNCHANGED <<parserVars, serverVars, limitVars, clock, deployed, sse, db,
                   sending, poller>>

\* the database runs the callback's query
IntervalQuery(c) ==
    /\ stream.polls[c].at = "query"
    /\ stream' = [stream EXCEPT !.polls[c].at = "deliver",
                                !.polls[c].results =
                                    selectAfter(db, stream.polls[c].lastEventId,
                                                STREAM_LIMIT)]
    /\ UNCHANGED <<parserVars, serverVars, limitVars, clock, deployed, sse, db,
                   sending, poller>>

\* the callback goes on after its await and enqueues the results
IntervalDeliver(c) ==
    /\ stream.polls[c].at = "deliver"
    /\ stream' = [enqueueAll(stream, stream.polls[c].results)
                     EXCEPT !.polls[c] = NoCallback]
    /\ UNCHANGED <<parserVars, serverVars, limitVars, clock, deployed, sse, db,
                   sending, poller>>

StreamNext ==
    \/ StoreEvent
    \/ \E c \in Callbacks : IntervalStart(c) \/ IntervalQuery(c) \/ IntervalDeliver(c)

StreamSpec == StreamInit /\ [][StreamNext]_vars

----------------------------------------------------------------------------
(* What the claims are stated with                                         *)

\* the last call of parse has ended
Done == outcome.kind # "none"

Returned == outcome.kind = "result"

Threw == outcome.kind = "error"

Min(a, b) == IF a < b THEN a ELSE b

\* the sum of the entries of a sequence of integers (of its two halves, so
\* that a thousand entries are summed at a depth of ten)
RECURSIVE SeqSum(_)
SeqSum(q) ==
    IF q = <<>> THEN 0
    ELSE IF Len(q) = 1 THEN q[1]
    ELSE SeqSum(SubSeq(q, 1, Len(q) \div 2)) + SeqSum(SubSeq(q, (Len(q) \div 2) + 1, Len(q)))

\* the sequence q without its i-th entry
Without(q, i) == SubSeq(q, 1, i - 1) \o SubSeq(q, i + 1, Len(q))

\* the k largest entries of q, the largest first
RECURSIVE Largest(_, _)
Largest(q, k) ==
    IF k = 0 \/ q = <<>> THEN <<>>
    ELSE LET i == CHOOSE i \in 1..Len(q) : \A j \in 1..Len(q) : q[j] <= q[i]
         IN <<q[i]>> \o Largest(Without(q, i), k - 1)

\* the sequence q, last entry first
Reverse(q) == [i \in 1..Len(q) |-> q[Len(q) + 1 - i]]

\* the text "[a, b, c]" of a sequence of numbers
Bracketed(q) == <<"[">> \o join(q, <<",", " ">>) \o <<"]">>

\* the breakdown "[rolls] → [kept] = sum" of a term with keep or drop
KeptBreakdown(rolls, kept) ==
    Bracketed(rolls) \o <<" ", "→", " ">> \o Bracketed(kept)
    \o <<" ", "=", " ">> \o toString(SeqSum(kept))

----------------------------------------------------------------------------
\* 1 <= N <= 1000, 1 <= X <= 10000 and N * X <= 1,000,000
ValidDice(n, x) ==
    /\ 1 <= n /\ n <= MAX_DICE_COUNT
    /\ 1 <= x /\ x <= MAX_DICE_SIDES
    /\ n * x <= MAX_NUMBER

\* the result is that of N dice of X sides
IsPlainRoll(n, x) ==
    /\ Returned
    /\ Len(outcome.result.rolls) = n
    /\ \A i \in 1..Len(outcome.result.rolls) : outcome.result.rolls[i] \in 1..x
    /\ outcome.result.total = SeqSum(outcome.result.rolls)

(* C1. For every valid dice term NdX without modifiers (N omitted meaning  *)
(* 1), a call of parse returns a result whose rolls has exactly N entries, *)
(* each in 1..X, and whose total is the sum of those N entries.            *)
C1_PlainDice ==
    /\ \A t \in PlainTerms :
           (Done /\ ~t.negative /\ expression = t.text) => IsPlainRoll(t.count, t.sides)
    /\ \A t \in EdgeTerms :
           (Done /\ t.suffix = "d" /\ ValidDice(t.count, t.sides) /\ expression = t.text)
               => IsPlainRoll(t.count, t.sides)

\* 3d3 was parsed and its dice showed 3, 1 and 2
C1_Witness ==
    /\ Done /\ expression = Dice(3, 3)
    /\ outcome.result.rolls = <<3, 1, 2>> /\ outcome.result.total = 6

\* the value of the operand op, the dice before it having taken `before` rolls
OperandValue(op, before) ==
    IF op.dice = 1 THEN outcome.result.rolls[before + 1] ELSE op.value

\* the value of the operator tree the shape is written for
TreeValue(name, a, b, c) ==
    CASE name = "a-b-c" -> (a - b) - c
      [] name = "a-b+c" -> (a - b) + c
      [] name = "a+b*c" -> a + (b * c)
      [] name = "a*b-c" -> (a * b) - c
      [] name = "(a+b)*c" -> (a + b) * c
      [] name = "a*(b-c)" -> a * (b - c)

(* C2. The total of a compound expression is the value of its operator     *)
(* tree: multiplication binds tighter than addition and subtraction, both  *)
(* are left-associative, and parentheses override both, whatever the       *)
(* operands a, b and c evaluate to.                                        *)
C2_OperatorTree ==
    \A t \in CompoundTerms :
        (Done /\ expression = t.text) =>
            /\ Returned
            /\ Len(outcome.result.rolls) = t.a.dice + t.b.dice + t.c.dice
            /\ outcome.result.total =
                   TreeValue(t.shape,
                       OperandValue(t.a, 0),
                       OperandValue(t.b, t.a.dice),
                       OperandValue(t.c, t.a.dice + t.b.dice))

\* d3-1-1 was parsed with the die on 3: the total is (3-1)-1 = 1, not 3-(1-1)
C2_Witness ==
    /\ Done /\ expression = <<"d", "3", "-", "1", "-", "1">>
    /\ outcome.result.rolls = <<3>> /\ outcome.result.total = 1

C5_CountOutsideBounds ==
    \A t \in EdgeTerms :
        (Done /\ expression = t.text /\ (t.count < 1 \/ t.count > MAX_DICE_COUNT))
            => Threw

(* C6. Every dice term NdX with sides X outside 1..10000, or with          *)
(* N*X > 1,000,000, makes parse fail with a ParseError before any die is   *)
(* rolled; N*X = 1,000,000 exactly (1000d1000) is accepted.                *)
C6_SidesAndProduct ==
    \A t \in EdgeTerms :
        (Done /\ t.suffix = "d" /\ expression = t.text) =>
            /\ (t.sides < 1 \/ t.sides > MAX_DICE_SIDES) => (Threw /\ drawn = 0)
            /\ (/\ t.count <= MAX_DICE_COUNT /\ t.sides <= MAX_DICE_SIDES
                /\ t.count * t.sides > MAX_NUMBER) => (Threw /\ drawn = 0)
            /\ (/\ ValidDice(t.count, t.sides)
                /\ t.count * t.sides = MAX_NUMBER) => IsPlainRoll(t.count, t.sides)

\* 1000d1000 was parsed and rolled its 1000 dice; the checks passed
C6_Witness ==
    /\ Done /\ expression = Dice(1000, 1000)
    /\ Returned /\ Len(outcome.result.rolls) = 1000 /\ drawn = 1000

\* q[i..j] is a maximal run of digits of q
IsDigitRun(q, i, j) ==
    /\ i <= j
    /\ \A k \in i..j : IsDigit(q[k])
    /\ (i > 1 => ~IsDigit(q[i - 1]))
    /\ (j < Len(q) => ~IsDigit(q[j + 1]))

\* the decimal number written q[i..j] exceeds 1,000,000: without its leading
\* zeros it has more than seven digits, or seven that are not 1000000
ExceedsMillion(q, i, j) ==
    \E k \in i..j :
        /\ q[k] # "0"
        /\ \A m \in i..(k - 1) : q[m] = "0"
        /\ \/ j - k + 1 > 7
           \/ j - k + 1 = 7 /\ SubSeq(q, k, j) # <<"1", "0", "0", "0", "0", "0", "0">>

HasLargeNumber(q) ==
    \E i \in 1..Len(q), j \in 1..Len(q) : IsDigitRun(q, i, j) /\ ExceedsMillion(q, i, j)

(* C7. Any digit run whose value exceeds 1,000,000 makes parse fail with a *)
(* ParseError, wherever it occurs (literal, dice count, sides, modifier    *)
(* argument); the value 1,000,000 itself is accepted as a literal.         *)
C7_LargeNumbers ==
    /\ (Done /\ HasLargeNumber(input)) => Threw
    /\ (Done /\ expression = <<"1", "0", "0", "0", "0", "0", "0">>) =>
           (Returned /\ outcome.result.total = 1000000 /\ outcome.result.rolls = <<>>)

\* 2d6k1000001 was parsed and threw
C7_Witness ==
    /\ Done /\ expression = Dice(2, 6) \o Mod("k", 1000001)
    /\ HasLargeNumber(input) /\ Threw /\ drawn = 0

\* the threshold of the term: the number written, or sides
Threshold(t) == IF t.explodeOn # 0 THEN t.explodeOn ELSE t.sides

\* the number of faces the first die contributed: its first face and those
\* that follow a face meeting the threshold
RECURSIVE FirstDieFaces(_, _, _)
FirstDieFaces(q, threshold, k) ==
    IF k < Len(q) /\ q[k] >= threshold /\ k < 101
    THEN FirstDieFaces(q, threshold, k + 1)
    ELSE k

(* C8. With explode set, every die is re-rolled at most 100 more times: no *)
(* die contributes more than 101 faces to rolls, rolls has at most         *)
(* 101 * count entries, and rollDice ends for every threshold, also when   *)
(* every face meets it (explode on 1).                                     *)
C8_ExplodeCap ==
    \A t \in ExplodeTerms :
        (Done /\ expression = t.text) =>
            /\ Returned
            /\ drawn = Len(outcome.result.rolls)
            /\ Len(outcome.result.rolls) >= t.count
            /\ Len(outcome.result.rolls) <= 101 * t.count
            /\ (t.count = 1 => Len(outcome.result.rolls) <= 101)
            /\ (t.count = 2 =>
                   LET k == FirstDieFaces(outcome.result.rolls, Threshold(t), 1)
                   IN /\ k <= 101
                      /\ Len(outcome.result.rolls) - k >= 1
                      /\ Len(outcome.result.rolls) - k <= 101
                      /\ (k < 101 => outcome.result.rolls[k] < Threshold(t)))
            /\ \A i \in 1..Len(outcome.result.rolls) :
                   outcome.result.rolls[i] \in 1..t.sides

\* 1d3e1 was parsed: every face meets the threshold, and the die stopped after
\* its first face and 100 more
C8_Witness ==
    /\ Done /\ expression = Dice(1, 3) \o Mod("e", 1)
    /\ Returned /\ Len(outcome.result.rolls) = 101 /\ drawn = 101

\* the faces that the draws of the last call gave, on dice of x sides
FacesGenerated(x) ==
    [k \in 1..drawn |-> ((faces[((k - 1) % Len(faces)) + 1] * x) \div RandDen) + 1]

(* C9. After a successful parse, rolls is the ordered sequence of every    *)
(* die face generated during the evaluation: the first face of each die,   *)
(* every face generated by explosion, and the fresh face generated by a    *)
(* reroll; it is empty exactly when the expression contains no dice term.  *)
C9_RollsAreAllFaces ==
    /\ \A t \in PlainTerms \cup KeepDropTerms \cup ExplodeTerms \cup RerollTerms :
           (Done /\ Returned /\ expression = t.text) =>
               /\ outcome.result.rolls = FacesGenerated(t.sides)
               /\ outcome.result.rolls # <<>>
    /\ \A t \in LiteralTerms :
           (Done /\ Returned /\ expression = t.text) => outcome.result.rolls = <<>>

(* C10. A leading '-' on a dice term negates only the term's final sum:    *)
(* every entry of rolls stays the non-negated face, keep/drop selects on   *)
(* the non-negated per-die values, and total is minus the sum of the       *)
(* retained values.                                                        *)
C10_NegatedTerm ==
    /\ \A t \in PlainTerms :
           (Done /\ t.negative /\ expression = t.text) =>
               /\ Returned
               /\ outcome.result.rolls = FacesGenerated(t.sides)
               /\ Len(outcome.result.rolls) = t.count
               /\ outcome.result.total = 0 - SeqSum(outcome.result.rolls)
    /\ \A t \in KeepDropTerms :
           (Done /\ t.negative /\ expression = t.text) =>
               LET kept == IF t.letter = "k"
                           THEN Largest(outcome.result.rolls, Min(t.arg, t.count))
                           ELSE Reverse(Largest(outcome.result.rolls,
                                            t.count - Min(t.arg, t.count)))
               IN /\ Returned
                  /\ outcome.result.rolls = FacesGenerated(t.sides)
                  /\ Len(outcome.result.rolls) = t.count
                  /\ outcome.result.total = 0 - SeqSum(kept)
                  /\ outcome.result.breakdown =
                         KeptBreakdown(outcome.result.rolls, kept)

\* -3d3k2 was parsed and showed 1, 3, 2: the 3 and the 2 are kept, total -5
C10_Witness ==
    /\ Done /\ expression = <<"-">> \o Dice(3, 3) \o Mod("k", 2)
    /\ outcome.result.rolls = <<1, 3, 2>> /\ outcome.result.total = 0 - 5

\* the last call threw the ParseError of the Error `message`
ThrewError(message) ==
    /\ Threw
    /\ outcome.result = NoResult
    /\ outcome.error.prefix = "Parse error: "
    /\ outcome.error.message = message

(* C11. If the cursor has not reached the end of the normalized input when *)
(* a complete expression has been parsed, parse throws a ParseError and    *)
(* returns no result, although the leading part was evaluated: parse       *)
(* returns only with the whole input consumed.                             *)
C11_TrailingInput ==
    /\ (Done /\ Returned) => position = Len(input)
    /\ \A t \in TrailingTerms :
           (Done /\ expression = t.text) =>
               /\ ThrewError("Unexpected character at position")
               /\ outcome.error.at = t.at
               /\ outcome.error.char = t.char
               /\ position = t.at
               /\ position < Len(input)
               /\ drawn = t.dice

\* 2d3x was parsed: the two dice were rolled, and parse threw at the x
C11_Witness ==
    /\ Done /\ expression = Dice(2, 3) \o <<"x">>
    /\ Threw /\ drawn = 2 /\ position = 3 /\ outcome.error.char = "x"

(* C12. Where a factor is expected and neither a number, a dice term nor   *)
(* '(' follows, parse throws a ParseError: for the empty input, for an     *)
(* operator with no right operand, for a leading '+' or '*', for "()" and  *)
(* for a lone '-'.                                                         *)
C12_MissingFactor ==
    \A t \in NoFactorTerms :
        (Done /\ expression = t.text) =>
            /\ ThrewError("Expected number or dice notation at position")
            /\ outcome.error.at = t.at

\* 2d3++ was parsed: the two dice were rolled, and parse threw at the second +
C12_Witness ==
    /\ Done /\ expression = Dice(2, 3) \o <<"+", "+">>
    /\ Threw /\ drawn = 2 /\ outcome.error.at = 4

\* the nesting depth after the first i characters of q, from the depth d after
\* the first k: -1 once a ')' has no '(' to match
RECURSIVE DepthFrom(_, _, _, _)
DepthFrom(q, i, k, d) ==
    IF d < 0 \/ k >= i THEN d
    ELSE DepthFrom(q, i, k + 1,
             IF q[k + 1] = "(" THEN d + 1 ELSE IF q[k + 1] = ")" THEN d - 1 ELSE d)

\* the parentheses of q are balanced
Balanced(q) == DepthFrom(q, Len(q), 0, 0) = 0

(* C13. parse returns only if the parentheses of the normalized input are  *)
(* balanced: a '(' whose sub-expression is not followed by ')' makes it    *)
(* throw a ParseError, and so does a ')' that matches no '('.              *)
C13_BalancedParentheses ==
    /\ (Done /\ Returned) => Balanced(input)
    /\ \A t \in UnbalancedTerms :
           (Done /\ expression = t.text) =>
               (~Balanced(input) /\ ThrewError(t.message))

\* (2d3 was parsed: the two dice were rolled, and parse threw for the missing )
C13_Witness ==
    /\ Done /\ expression = <<"(">> \o Dice(2, 3)
    /\ ThrewError("Missing closing parenthesis") /\ drawn = 2

(* C14. In a dice term, a keep, drop or reroll letter that no number       *)
(* follows makes parse throw a ParseError, and so does a 'd' after the     *)
(* count that neither a number, '%' nor 'f' follows; an explode letter     *)
(* ('!' or 'e') without a number is accepted.                              *)
C14_ModifierNumbers ==
    \A t \in ModifierTerms :
        (Done /\ expression = t.text) =>
            IF t.message = ""
            THEN /\ Returned
                 /\ Len(outcome.result.rolls) >= 2
                 /\ \E i \in 1..Len(outcome.result.expression) :
                        outcome.result.expression[i] = "!"
            ELSE ThrewError(t.message)

\* 2d3k was parsed and threw before any die was rolled; 2d3e is the other case
C14_Witness ==
    /\ Done /\ expression = Dice(2, 3) \o <<"k">>
    /\ ThrewError("Missing number after 'k'") /\ drawn = 0

\* the cursor at the position q of the input, as a step of the parser finds it
CursorAt(q) == [position |-> q, draws |-> 0, entered |-> 0]

\* the number of '(' among the first i characters of q
RECURSIVE Opened(_, _)
Opened(q, i) ==
    IF i = 0 THEN 0 ELSE Opened(q, i - 1) + (IF q[i] = "(" THEN 1 ELSE 0)

\* the last call ended in exactly one of the two outcomes
OneOutcome ==
    \/ /\ Returned
       /\ outcome.error = NoParseError
       /\ DOMAIN outcome.result = {"total", "rolls", "expression", "breakdown"}
       /\ outcome.result.expression # <<>>
       /\ outcome.result.breakdown # <<>>
    \/ /\ Threw
       /\ outcome.result = NoResult
       /\ outcome.error.prefix = "Parse error: "
       /\ outcome.error.message # ""

\* from the position q of the input of the last call, no function of the
\* parser leaves the cursor before q
MovesForward(q) ==
    /\ parseNumber(input, CursorAt(q)).p.position >= q
    /\ parseModifiers(input, CursorAt(q), NoModifiers).p.position >= q
    /\ parseDiceOrNumber(input, faces, CursorAt(q)).p.position >= q
    /\ parseFactor(input, faces, CursorAt(q)).p.position >= q
    /\ parseTerm(input, faces, CursorAt(q)).p.position >= q
    /\ parseExpression(input, faces, CursorAt(q)).p.position >= q

\* the character at the position q of the input starts a modifier
StartsModifier(q) ==
    \/ input[q + 1] \in {"k", "r", "!", "e"}
    \/ input[q + 1] = "d" /\ q + 1 < Len(input) /\ IsDigit(input[q + 2])

\* an iteration of each loop of the parser entered at the position q of the
\* input leaves the cursor after q
LoopsConsume(q) ==
    /\ IsDigit(input[q + 1]) => skipDigits(input, q) > q
    /\ StartsModifier(q) =>
           parseModifiers(input, CursorAt(q), NoModifiers).p.position > q
    /\ isTimes(input[q + 1]) =>
           termLoop(input, faces, CursorAt(q), NoResult).p.position > q
    /\ isPlusMinus(input[q + 1]) =>
           expressionLoop(input, faces, CursorAt(q), NoResult).p.position > q

(* C15. For every input, parse ends in exactly one of two outcomes, a      *)
(* complete result or a ParseError with a message; the cursor only moves   *)
(* forward, every iteration of a loop of the parser consumes at least one  *)
(* character, and parseExpression is entered again only on a '('.          *)
C15_ParseTerminates ==
    Done =>
        /\ OneOutcome
        /\ position \in 0..Len(input)
        /\ entered = 1 + Opened(input, position)
        /\ \A q \in 0..Len(input) : MovesForward(q)
        /\ \A q \in 0..(Len(input) - 1) : LoopsConsume(q)

\* 2*(1+d3 was parsed: parseExpression was entered twice, the loops of
\* parseTerm and parseExpression ran, and parse threw at the end of the input
C15_Witness ==
    /\ Done /\ expression = <<"2", "*", "(", "1", "+", "d", "3">>
    /\ entered = 2 /\ position = 7 /\ drawn = 1
    /\ ThrewError("Missing closing parenthesis")

\* the last call left what r, the same call on a new DiceParser, leaves
SameAs(r) ==
    /\ outcome = [kind |-> r.kind, result |-> r.result, error |-> r.error]
    /\ input = r.input
    /\ position = r.position
    /\ drawn = r.draws

(* C16. The outcome of a call of parse depends only on its argument and on *)
(* the faces drawn during the call: after any earlier call on the same     *)
(* parser, also one that threw part-way through its input, parse(e) gives  *)
(* what parse(e) gives on a new parser with the same faces.                *)
C16_StatelessAcrossCalls ==
    Done => SameAs(parse(expression, faces))

\* (d3+1)*2 was parsed and returned, on a parser whose call before threw with
\* the cursor inside its input
C16_Witness ==
    /\ Done /\ expression = <<"(", "d", "3", "+", "1", ")", "*", "2">>
    /\ Returned /\ position = 8
    /\ prior.kind = "error"
    /\ 0 < prior.position /\ prior.position < Len(prior.input)

(* C17. For every non-negative, non-exploding, unmodified term (a literal, *)
(* NdX, dX, Nd% or NdF) that parse returns a result for, parsing the       *)
(* expression rendered in the result returns again, renders the same       *)
(* expression, and rolls the same number of dice.                          *)
C17_RenderedRoundTrip ==
    prior.reparse =>
        /\ expression = prior.result.expression
        /\ Returned
        /\ outcome.result.expression = prior.result.expression
        /\ Len(outcome.result.rolls) = Len(prior.result.rolls)
        /\ drawn = Len(prior.result.rolls)

\* 2d% was parsed and rendered 2d100, and 2d100 was parsed and rendered 2d100
C17_Witness ==
    /\ prior.reparse /\ prior.input = <<"2", "d", "%">>
    /\ expression = Dice(2, 100)
    /\ Returned /\ outcome.result.expression = Dice(2, 100)
    /\ Len(outcome.result.rolls) = 2

(* C19. When a dice term carries both a keep and a drop modifier, in       *)
(* either order, only keep is applied: the values retained are the K       *)
(* largest, and drop changes neither them nor total.                       *)
C19_KeepBeatsDrop ==
    \A t \in BothTerms :
        (Done /\ expression = t.text) =>
            /\ Returned
            /\ Len(outcome.result.rolls) = t.count
            /\ outcome.result.total =
                   SeqSum(Largest(outcome.result.rolls, Min(t.keep, t.count)))
            /\ outcome.result.breakdown =
                   KeptBreakdown(outcome.result.rolls,
                       Largest(outcome.result.rolls, Min(t.keep, t.count)))

\* 3d3d1k2 was parsed and showed 1, 3, 2: the 3 and the 2 are kept, and the
\* drop of one die does not remove the 2
C19_Witness ==
    /\ Done /\ expression = Dice(3, 3) \o Mod("d", 1) \o Mod("k", 2)
    /\ outcome.result.rolls = <<1, 3, 2>> /\ outcome.result.total = 5

\* the index in g of the last face of the die whose first face is g[k]: the
\* faces that follow a face meeting the threshold are the die's, up to 100
RECURSIVE ChainEnd(_, _, _, _)
ChainEnd(g, k, threshold, c) ==
    IF k < Len(g) /\ g[k] >= threshold /\ c < 100
    THEN ChainEnd(g, k + 1, threshold, c + 1)
    ELSE k

\* the index in g of the last face of the die whose first face is g[k]
LastFace(g, k, t) == IF t.explode THEN ChainEnd(g, k, t.sides, 0) ELSE k

\* the values of `left` dice of the term t whose faces are g[k], g[k+1], ...
\* in the order generated, followed by the number of faces they took: a die
\* whose faces sum to R or less takes one face more, which is its value
RECURSIVE RerolledDice(_, _, _, _)
RerolledDice(g, k, left, t) ==
    IF left = 0 \/ k > Len(g) THEN <<k - 1>>
    ELSE IF SeqSum(SubSeq(g, k, LastFace(g, k, t))) <= t.reroll
            /\ LastFace(g, k, t) < Len(g)
    THEN <<g[LastFace(g, k, t) + 1]>>
         \o RerolledDice(g, LastFace(g, k, t) + 2, left - 1, t)
    ELSE <<SeqSum(SubSeq(g, k, LastFace(g, k, t)))>>
         \o RerolledDice(g, LastFace(g, k, t) + 1, left - 1, t)

\* the last call ended in the dice values v, followed by the number of faces
IsRerolled(v, t) ==
    /\ Len(v) = t.count + 1
    /\ drawn = v[Len(v)]
    /\ outcome.result.total = SeqSum(SubSeq(v, 1, t.count))
    /\ outcome.result.breakdown =
           Bracketed(SubSeq(v, 1, t.count)) \o <<" ", "=", " ">>
           \o toString(SeqSum(SubSeq(v, 1, t.count)))

(* C20. With reroll threshold R, each die is examined once, after its      *)
(* explosion is resolved: a die whose accumulated value is <= R is         *)
(* replaced by exactly one fresh face in 1..sides, any other die is left   *)
(* as it is; the replacement is not rerolled again, so that it may still   *)
(* be <= R, and it does not explode.                                       *)
C20_RerollOnce ==
    \A t \in RerollTerms :
        (Done /\ expression = t.text) =>
            /\ Returned
            /\ IsRerolled(RerolledDice(FacesGenerated(t.sides), 1, t.count, t), t)

\* 1d3!r2 was parsed: the die showed 1, was replaced by a 3, and the 3 neither
\* exploded nor was rerolled
C20_Witness ==
    /\ Done /\ expression = Dice(1, 3) \o <<"!">> \o Mod("r", 2)
    /\ outcome.result.rolls = <<1>> /\ drawn = 2 /\ outcome.result.total = 3

(* C18. Every roll call that reaches the server over /mcp or /sse is       *)
(* counted against its client's rate limit before the expression is        *)
(* parsed: the counter of the client's current minute is the number of     *)
(* roll calls the client made in it, up to the limit of 50, and no more    *)
(* than 50 of them are evaluated.                                          *)
C18_RollsRateLimited ==
    \A c \in Clients :
        /\ kv[<<c, now>>] = Min(made[c], RATE_LIMIT_MINUTE)
        /\ evaluated[c] <= RATE_LIMIT_MINUTE

\* the threshold the term writes: the number after '!' or 'e' when there is
\* one, 0 included, and sides when there is none
WrittenThreshold(t) == IF t.written THEN t.explodeOn ELSE t.sides

\* the die whose first face is g[k] and whose last face is g[e] stopped as the
\* threshold says: after 100 explosions, or on a face below the threshold
Stopped(g, k, e, threshold) == e - k = MAX_EXPLODE \/ g[e] < threshold

\* the values of `left` dice whose faces are g[k], g[k+1], ...: a die takes the
\* next face while its latest face meets the threshold and it has exploded
\* fewer than 100 times, and its value is the sum of its faces; faces of g
\* left unused, or a die that stopped otherwise, make the result <<-1>>
RECURSIVE ExplodedDice(_, _, _, _)
ExplodedDice(g, k, left, threshold) ==
    IF left = 0 THEN (IF k = Len(g) + 1 THEN <<>> ELSE <<-1>>)
    ELSE IF k > Len(g) \/ ~Stopped(g, k, ChainEnd(g, k, threshold, 0), threshold)
    THEN <<-1>>
    ELSE <<SeqSum(SubSeq(g, k, ChainEnd(g, k, threshold, 0)))>>
         \o ExplodedDice(g, ChainEnd(g, k, threshold, 0) + 1, left - 1, threshold)

\* the last call returned the dice values v, made of all the faces of rolls
IsExploded(v, t) ==
    /\ Len(v) = t.count
    /\ drawn = Len(outcome.result.rolls)
    /\ outcome.result.total = SeqSum(v)
    /\ outcome.result.breakdown =
           Bracketed(v) \o <<" ", "=", " ">> \o toString(SeqSum(v))

(* C21. With explode set, a die is rolled again while its most recent face *)
(* is >= the explode threshold and it exploded fewer than 100 times, each  *)
(* new face being added to the die's value; the threshold is the number    *)
(* written after '!' or 'e' whenever one is written, 0 included, and is    *)
(* sides only when no number is written.                                   *)
C21_ExplodeThreshold ==
    \A t \in ExplodeTerms :
        (Done /\ expression = t.text) =>
            /\ Returned
            /\ IsExploded(ExplodedDice(outcome.result.rolls, 1, t.count,
                              WrittenThreshold(t)), t)

\* the last call returned n Fudge dice: n faces, each -1, 0 or +1, and their
\* sum as total, negated when the term is
IsFudgeRoll(n, negative) ==
    /\ Returned
    /\ drawn = n
    /\ Len(outcome.result.rolls) = n
    /\ \A i \in 1..Len(outcome.result.rolls) : outcome.result.rolls[i] \in {0 - 1, 0, 1}
    /\ outcome.result.total =
           (IF negative THEN 0 - 1 ELSE 1) * SeqSum(outcome.result.rolls)

(* C22. For a Fudge term NdF with 1 <= N <= 1000, rolls has exactly N      *)
(* entries, each -1, 0 or +1, and total is their sum, negated when the     *)
(* term has a leading '-'; a modifier written after the 'f' is not         *)
(* accepted: parse throws a ParseError.                                    *)
C22_FudgeTerm ==
    /\ \A t \in FudgeTerms :
           (Done /\ expression = t.text) => IsFudgeRoll(t.count, t.negative)
    /\ \A t \in SpecialTerms :
           (Done /\ expression = t.text /\ t.suffix \in {"f", "F"}
                 /\ (t.count >= 1 \/ ~t.written)) =>
               IsFudgeRoll(IF t.written THEN t.count ELSE 1, t.negative)
    /\ \A t \in EdgeTerms :
           (Done /\ expression = t.text /\ t.suffix = "f"
                 /\ t.count >= 1 /\ t.count <= MAX_DICE_COUNT) =>
               IsFudgeRoll(t.count, FALSE)
    /\ \A t \in FudgeModifierTerms :
           (Done /\ expression = t.text) =>
               /\ ThrewError(t.message)
               /\ drawn = 2

\* -3dF was parsed and showed +, -, +: three faces and a total of -1
C22_Witness ==
    /\ Done /\ expression = <<"-", "3", "d", "F">>
    /\ outcome.result.rolls = <<1, 0 - 1, 1>> /\ outcome.result.total = 0 - 1

(* C23. parse is invariant under normalization: parse(e) gives what parse  *)
(* gives for e lower-cased with all whitespace removed, with the same      *)
(* faces: the same error, or the same expression, total and rolls. Upper-  *)
(* case D, K, R, E, F and whitespace anywhere, also between digits, change *)
(* nothing.                                                                *)
C23_NormalizationInvariant ==
    /\ Done => SameAs(parse(normalize(expression), faces))
    /\ \A t \in NormalizedTerms :
           (Done /\ expression = t.text) =>
               /\ input = t.normal
               /\ SameAs(parse(t.normal, faces))

\* "2D3 K" was parsed and threw what "2d3k" throws, after rolling the two dice
C23_Witness ==
    /\ Done /\ expression = <<"2", "D", "3", " ", "K">>
    /\ input = <<"2", "d", "3", "k">>
    /\ ThrewError("Missing number after 'k'") /\ position = 4

\* the text of the one content item of the last reply
ReplyText == reply.content[1].text

(* C24. A tools/call of roll with a string expression is always answered   *)
(* with a JSON-RPC result holding one text content item: the rendered      *)
(* outcome (expression, breakdown, total) when parse returned, the         *)
(* ParseError's message when parse threw. A parse failure never gives a    *)
(* JSON-RPC error object and never leaves the handler as an exception.     *)
C24_RollAlwaysReplies ==
    reply # NoReply =>
        /\ reply.jsonrpc = "2.0"
        /\ reply.kind = "result"
        /\ reply.code = 0
        /\ Len(reply.content) = 1
        /\ reply.content[1].type = "text"
        /\ outcome.kind \in {"result", "error"}
        /\ Returned =>
               /\ ReplyText[1] = ":game_die: **"
               /\ SubSeq(ReplyText, 2, Len(outcome.result.expression) + 2) =
                      outcome.result.expression \o <<"**">>
               /\ includes(ReplyText, <<"\n\n">> \o outcome.result.breakdown)
               /\ includes(ReplyText, <<"\n\n**Result: ">>
                                      \o toString(outcome.result.total) \o <<"**">>)
        /\ Threw =>
               /\ ReplyText[1] = ":x: **Invalid dice expression**: "
               /\ outcome.error.prefix = "Parse error: "
               /\ SubSeq(ReplyText, 2, 3) = <<"Parse error: ", outcome.error.message>>

\* "(1" was rolled: parse threw, and the reply is a result whose text gives
\* the message
C24_Witness ==
    /\ expression = <<"(", "1">> /\ Threw
    /\ reply.kind = "result"
    /\ includes(ReplyText, <<"Parse error: ", "Missing closing parenthesis">>)

\* the single terms: literals, dice terms with and without modifiers, Fudge
\* and percentile terms, each also negated
SingleTermTexts ==
    {t.text : t \in PlainTerms} \cup {t.text : t \in KeepDropTerms}
    \cup {t.text : t \in ExplodeTerms} \cup {t.text : t \in RerollTerms}
    \cup {t.text : t \in SpecialTerms} \cup {t.text : t \in FudgeTerms}
    \cup {t.text : t \in BothTerms} \cup {t.text : t \in LiteralTerms}

\* the index of the last '=' of b, 0 when b has none
RECURSIVE LastEquals(_, _)
LastEquals(b, i) ==
    IF i = 0 THEN 0 ELSE IF b[i] = "=" THEN i ELSE LastEquals(b, i - 1)

\* the number that the decimal numeral q writes, with its sign
NumberWritten(q) ==
    IF q # <<>> /\ Head(q) = "-" THEN 0 - parseInt(Tail(q)) ELSE parseInt(q)

\* the number a breakdown shows as its value: what follows its last "= ", or
\* the whole breakdown when it has no '='
ValueShown(b) ==
    IF LastEquals(b, Len(b)) = 0 THEN NumberWritten(b)
    ELSE NumberWritten(SubSeq(b, LastEquals(b, Len(b)) + 2, Len(b)))

(* C29. For every successfully parsed single term (a literal, a dice term  *)
(* with any modifiers, a Fudge term, negated or not) the value shown after *)
(* the final "= " of breakdown equals the term's total; for a literal the  *)
(* breakdown itself is the total.                                          *)
C29_BreakdownShowsTotal ==
    (Done /\ Returned /\ expression \in SingleTermTexts) =>
        ValueShown(outcome.result.breakdown) = outcome.result.total

(* C30. For every successfully parsed compound expression of literals, the *)
(* rendered expression of the result parses again to the same total: the   *)
(* rendering keeps the grouping of the input, also of sub-expressions      *)
(* written in parentheses, as in (2+3)*2.                                  *)
C30_RenderingKeepsGrouping ==
    (prior.reparse /\ prior.input \in {normalize(e) : e \in CompoundLiteralTexts}) =>
        /\ Returned
        /\ outcome.result.total = prior.result.total

(* C26. Under any interleaving of concurrent roll requests of one client,  *)
(* checkRateLimit admits no more than 50 requests in one minute window,    *)
(* and the counter stored for the window is the number of requests         *)
(* admitted in it.                                                         *)
C26_ConcurrentLimit ==
    /\ admitted <= RATE_LIMIT_MINUTE
    /\ (\A w \in Workers : flight[w].at = "idle") => kv[<<Caller, now>>] = admitted

\* the event store of the Durable Object that is deployed
Store == IF deployed = "SSEConnectionDurableObject" THEN sse ELSE db

\* the ids of the messages stored
StoredIds == {Store.messages[i].id : i \in 1..Len(Store.messages)}

(* C25. In either Durable Object event store, after every /send request    *)
(* that stores a response at most 100 messages are stored, and they are    *)
(* the most recently stored ones: no message is removed while an older one *)
(* is kept.                                                                *)
C25_StoreKeepsLast100 ==
    /\ Len(Store.messages) <= KEEP_LAST
    /\ StoredIds = (Store.lastEventId - Len(Store.messages) + 1)..Store.lastEventId

\* the event `id` is a row of messages
IsStored(id) == \E i \in 1..Len(db.messages) : db.messages[i].id = id

\* the client polling /events received the event `id`
IsDelivered(id) == \E i \in 1..Len(poller.received) : poller.received[i] = id

(* C27. In the SQLiteDurableObject, under any interleaving of concurrent   *)
(* /send requests with a client that polls /events with the highest event  *)
(* id it received, every response stored by /send is eventually delivered  *)
(* to the client: no stored event is skipped because an event with a       *)
(* higher id became visible before it.                                     *)
C27_EveryEventDelivered ==
    \A id \in 1..MaxEvents : IsStored(id) ~> IsDelivered(id)

(* C28. On one /stream connection of the SQLiteDurableObject every stored  *)
(* event is enqueued at most once, and the events are enqueued in strictly *)
(* increasing order of id, also when a callback of the poller is still     *)
(* awaiting its query when the next one starts.                            *)
C28_EnqueuedOnceInOrder ==
    \A i \in 1..Len(stream.enqueued) : \A j \in 1..Len(stream.enqueued) :
        i < j => stream.enqueued[i] < stream.enqueued[j]

====
